---- MODULE Spec2Model ----
(***************************************************************************)
(* A model of stsmon's transport-stream and PSI/SI engine:                 *)
(*   monitor.c  - the per-unit loop of monitor_stream and handle_section   *)
(*   pat.c      - handle_pat_section / handle_pat,                         *)
(*                handle_sdt_section / handle_sdt                          *)
(*   pmt (unnamed/part_000) - handle_pmt                                   *)
(*   services.c - the service registry (a singly linked list)              *)
(*                                                                         *)
(* Encoding.  A TS unit's payload and a PSI section are sequences of       *)
(* cells, one cell per syntactic element of the byte stream: the section   *)
(* header (table id, syntax flag, length, table-id extension, version,     *)
(* section number, last section number), one PAT program, one SDT service, *)
(* one PMT elementary stream, one descriptor, the CRC, or one 0xff         *)
(* stuffing byte.  Lengths, offsets and the pointer_field count cells.     *)
(* The CRC cell carries the cells it was computed over, so a CRC check is  *)
(* an exact comparison.  Functions of the bitstream library are modelled   *)
(* at the places the program calls them.                                   *)
(***************************************************************************)
EXTENDS Integers, Sequences, FiniteSets, TLC

(***************************************************************************)
(* Program constants                                                       *)
(***************************************************************************)
TS_MAX_PID == 8192
NULL_PID == 2^13 - 1          \* 0x1FFF, the largest value ts_get_pid returns
PAT_PID == 0
NIT_PID == 16
SDT_PID == 17
PAT_TABLE_ID == 0
PMT_TABLE_ID == 2
SDT_TABLE_ID_ACTUAL == 66
OTHER_TABLE_ID == 112         \* a table id handle_section has no case for
CC_UNSET == 255               \* 0xFF: no packet seen yet on the PID
PMT_VERSION_UNKNOWN == 255    \* 0xff: no PMT seen yet for the service
DESC_SERVICE == 72            \* 0x48, the DVB service descriptor
PSI_HEADER_SIZE == 1          \* cells of a section before its length counts

(***************************************************************************)
(* Bounds of the model                                                     *)
(***************************************************************************)
MaxUnits == 4                 \* TS units received in one behaviour
MaxSecNum == 1                \* highest section number of a table
MaxSectionCells == 6          \* scaled PSI_PRIVATE_MAX_SIZE

Min(a, b) == IF a < b THEN a ELSE b

(***************************************************************************)
(* Cells                                                                   *)
(***************************************************************************)
Cell(k, f, x) == [k |-> k, f |-> f, x |-> x]
Hdr(tid, syntax, len, ext, ver, sec, last) ==
    Cell("hdr", <<tid, syntax, len, ext, ver, sec, last>>, <<>>)
Prog(sid, pid) == Cell("prog", <<sid, pid>>, <<>>)
Desc(tag, bytes) == Cell("desc", <<tag>> \o bytes, <<>>)
Svc(sid, ca, descs) == Cell("svc", <<sid, ca>>, descs)
Es(type, pid, descs) == Cell("es", <<type, pid>>, descs)
Crc(covered) == Cell("crc", <<>>, covered)
Pad == Cell("pad", <<>>, <<>>)

\* A cell that is not a section header, read as one: the bytes of a program,
\* service or CRC taken for table id, flags and length.
GarbageHdr(c) ==
    Hdr(OTHER_TABLE_ID, 0, IF c.k = "crc" THEN 0 ELSE 1, 0, 0, 0, 0)
AsHeader(c) == IF c.k = "hdr" THEN c ELSE GarbageHdr(c)

psi_get_tableid(s) == AsHeader(s[1]).f[1]
psi_get_syntax(s) == AsHeader(s[1]).f[2] = 1
psi_get_length(s) == AsHeader(s[1]).f[3]
psi_get_tableidext(s) == AsHeader(s[1]).f[4]
psi_get_version(s) == AsHeader(s[1]).f[5]
psi_get_section(s) == AsHeader(s[1]).f[6]
psi_get_lastsection(s) == AsHeader(s[1]).f[7]

\* psi_set_crc of the generator: header, body, then the CRC over both.
MkSection(tid, ext, ver, sec, last, body) ==
    LET pre == <<Hdr(tid, 1, Len(body) + 1, ext, ver, sec, last)>> \o body
    IN  pre \o <<Crc(pre)>>

psi_check_crc(s) ==
    /\ Len(s) >= 2
    /\ s[Len(s)] = Crc(SubSeq(s, 1, Len(s) - 1))

\* A validation that passes every section.
psi_validate_AcceptsAll(s) == TRUE

\* psi_validate: a section with the syntax flag must at least hold its CRC.
psi_validate(s) == ~(psi_get_syntax(s) /\ psi_get_length(s) < 1)

\* The entries of a section: the cells between header and CRC.
Body(s) == SubSeq(s, 2, Len(s) - 1)


(***************************************************************************)
(* The modelled PIDs and the PID table entry                               *)
(***************************************************************************)
PMT_PID_A == 256
PMT_PID_B == PMT_PID_A + 1
Pids == {PAT_PID, SDT_PID, PMT_PID_A, PMT_PID_B, NULL_PID}

\* A PID table whose counters start at 0 instead of the 0xFF sentinel.
InitPidEntry_ZeroCounter(pid) ==
    [last_cc |-> 0, packets |-> 0, psi_buffer |-> <<>>,
     is_psi |-> (pid = PAT_PID \/ pid = SDT_PID), is_data |-> FALSE]

\* The loop that initialises pid_table, with the two fixed PSI PIDs.
InitPidEntry(pid) ==
    [last_cc |-> CC_UNSET, packets |-> 0, psi_buffer |-> <<>>,
     is_psi |-> (pid = PAT_PID \/ pid = SDT_PID), is_data |-> FALSE]

(***************************************************************************)
(* Heap of sections.  A section object is an identity with its bytes; the  *)
(* engine's `live` is the set of identities malloc'ed and not yet freed.   *)
(* A table slot keeps the object it was given, so a slot whose identity is *)
(* not live is a dangling pointer.  `oracle` is what the build does when   *)
(* freed memory is read or freed again: "stale" (the bytes are still       *)
(* there, the second free passes) or "crash" (the process dies).           *)
(***************************************************************************)
NullSec == [id |-> 0, bytes |-> <<>>]
EmptyTable == [i \in 0..MaxSecNum |-> NullSec]
Oracles == {"stale", "crash"}

TableIds(t) == {t[i].id : i \in DOMAIN t} \ {0}
Referenced(e) ==
    TableIds(e.pat_sections_current) \cup TableIds(e.pat_sections_next)
      \cup TableIds(e.sdt_sections_current) \cup TableIds(e.sdt_sections_next)

\* psi_private_allocate as seen by the model: the identity of the new object.
NewId(e) ==
    CHOOSE n \in 1..(Cardinality(e.live \cup Referenced(e)) + 1) :
        /\ n \notin e.live \cup Referenced(e)
        /\ \A m \in 1..(n - 1) : m \in e.live \cup Referenced(e)

Fault(e, what) ==
    [e EXCEPT !.fault = what, !.crashed = (@ \/ e.oracle = "crash")]

\* free(p)
Free(e, s) ==
    IF s.id = 0 THEN e
    ELSE IF s.id \in e.live THEN [e EXCEPT !.live = @ \ {s.id}]
    ELSE Fault(e, "double_free")

\* a read through p
Touch(e, s) ==
    IF s.id # 0 /\ s.id \notin e.live THEN Fault(e, "use_after_free") ELSE e

RECURSIVE FreeSlots(_, _, _, _)
\* free(pp_sections[i]) for i = from..to
FreeSlots(e, t, from, to) ==
    IF from > to THEN e ELSE FreeSlots(Free(e, t[from]), t, from + 1, to)

\* psi_table_free
psi_table_free(e, t) == FreeSlots(e, t, 0, MaxSecNum)

\* psi_table_validate: the table holds a section 0
psi_table_validate(t) == t[0].id # 0

psi_table_get_lastsection(t) == psi_get_lastsection(t[0].bytes)

\* A comparison that finds every two tables different.
psi_table_compare_Never(t1, t2) == FALSE

\* psi_compare / psi_table_compare: same last section and identical bytes
psi_table_compare(t1, t2) ==
    /\ psi_table_get_lastsection(t1) = psi_table_get_lastsection(t2)
    /\ \A i \in 0..psi_table_get_lastsection(t1) : t1[i].bytes = t2[i].bytes

\* psi_table_section(pp_sections, p_section): stores the section in its
\* slot (freeing what was there) and says whether sections 0..last are all
\* present with the same last section, version and table-id extension; a
\* complete table drops the slots beyond last.
SlotMatches(p, s) ==
    /\ p.id # 0
    /\ psi_get_lastsection(p.bytes) = psi_get_lastsection(s.bytes)
    /\ psi_get_version(p.bytes) = psi_get_version(s.bytes)
    /\ psi_get_tableidext(p.bytes) = psi_get_tableidext(s.bytes)

RECURSIVE TouchSlots(_, _, _, _)
TouchSlots(e, t, from, to) ==
    IF from > to THEN e ELSE TouchSlots(Touch(e, t[from]), t, from + 1, to)

psi_table_section(e, tn, s) ==
    LET i    == psi_get_section(s.bytes)
        last == psi_get_lastsection(s.bytes)
        e1   == Free(e, e[tn][i])
        t    == [e1[tn] EXCEPT ![i] = s]
        bad  == {j \in 0..last : ~SlotMatches(t[j], s)}
        stop == IF bad = {} THEN last
                ELSE CHOOSE j \in bad : \A k \in bad : j <= k
        e2   == TouchSlots(e1, t, 0, stop)
    IN  IF bad # {}
        THEN [e |-> [e2 EXCEPT ![tn] = t], complete |-> FALSE]
        ELSE LET e3 == FreeSlots(e2, t, last + 1, MaxSecNum)
             IN  [e |-> [e3 EXCEPT ![tn] =
                            [j \in 0..MaxSecNum |->
                                IF j <= last THEN t[j] ELSE NullSec]],
                  complete |-> TRUE]

\* A reset that leaves the buffer as it is.
psi_assemble_reset_Keeps(e, pid) == e

\* psi_assemble_reset on one PID entry
psi_assemble_reset(e, pid) ==
    [e EXCEPT !.pid_table[pid].psi_buffer = <<>>]

(***************************************************************************)
(* services.c: the registry, a list with insertion at the head             *)
(***************************************************************************)
NullName == <<0 - 1>>          \* se->name == NULL

\* _service_get: index of the entry in the list, 0 for NULL
service_get_idx(list, service_id) ==
    IF service_id = 0 THEN (IF Len(list) > 0 THEN 1 ELSE 0)
    ELSE IF \E i \in 1..Len(list) : list[i].service_id = service_id
         THEN CHOOSE i \in 1..Len(list) :
                 /\ list[i].service_id = service_id
                 /\ \A j \in 1..(i - 1) : list[j].service_id # service_id
         ELSE 0

\* A registry entry that starts with version 0 recorded.
NewServiceEntry_VersionZero(service_id) ==
    [service_id |-> service_id, pmt_pid |-> 0, name |-> NullName,
     scrambled |-> FALSE, pmt_version |-> 0]

NewServiceEntry(service_id) ==
    [service_id |-> service_id, pmt_pid |-> 0, name |-> NullName,
     scrambled |-> FALSE, pmt_version |-> PMT_VERSION_UNKNOWN]

\* A _service_get_or_create that never looks for the entry.
service_get_or_create_AlwaysNew(list, service_id) ==
    [list |-> <<NewServiceEntry(service_id)>> \o list, idx |-> 1]

\* _service_get_or_create: the list after it, and the index of the entry
service_get_or_create(list, service_id) ==
    IF service_get_idx(list, service_id) # 0
    THEN [list |-> list, idx |-> service_get_idx(list, service_id)]
    ELSE [list |-> <<NewServiceEntry(service_id)>> \o list, idx |-> 1]

service_update(list, service_id, name, pmt_pid, scrambled) ==
    LET r == service_get_or_create(list, service_id)
    IN  [r.list EXCEPT ![r.idx].name = IF name # NullName THEN name ELSE @,
                       ![r.idx].pmt_pid = pmt_pid,
                       ![r.idx].scrambled = scrambled]

service_get_pmt_pid(list, service_id) ==
    IF service_get_idx(list, service_id) = 0 THEN 0
    ELSE list[service_get_idx(list, service_id)].pmt_pid

\* A registry that forgets every other service when it records a PMT PID.
service_set_pmt_pid_Forgets(list, service_id, pmt_pid) ==
    <<[NewServiceEntry(service_id) EXCEPT !.pmt_pid = pmt_pid]>>

service_set_pmt_pid(list, service_id, pmt_pid) ==
    LET r == service_get_or_create(list, service_id)
    IN  [r.list EXCEPT ![r.idx].pmt_pid = pmt_pid]

service_get_name(list, service_id) ==
    IF service_get_idx(list, service_id) = 0 THEN NullName
    ELSE IF list[service_get_idx(list, service_id)].name = NullName THEN <<>>
    ELSE list[service_get_idx(list, service_id)].name

service_scrambled(list, service_id) ==
    IF service_get_idx(list, service_id) = 0 THEN FALSE
    ELSE list[service_get_idx(list, service_id)].scrambled

service_get_pmt_version(list, service_id) ==
    IF service_get_idx(list, service_id) = 0 THEN PMT_VERSION_UNKNOWN
    ELSE list[service_get_idx(list, service_id)].pmt_version

service_set_pmt_version(list, service_id, version) ==
    LET r == service_get_or_create(list, service_id)
    IN  [r.list EXCEPT ![r.idx].pmt_version = version]

service_set_name(list, service_id, name) ==
    LET r == service_get_or_create(list, service_id)
    IN  [r.list EXCEPT ![r.idx].name = name]

service_set_scrambled(list, service_id, scrambled) ==
    LET r == service_get_or_create(list, service_id)
    IN  [r.list EXCEPT ![r.idx].scrambled = scrambled]

service_count(list) == Len(list)


(***************************************************************************)
(* out_log: the lines a step writes, kept as records                       *)
(***************************************************************************)
LogLine(what, sid, from, to) ==
    [what |-> what, sid |-> sid, from |-> from, to |-> to]
Log(e, what, sid, from, to) ==
    [e EXCEPT !.log = Append(@, LogLine(what, sid, from, to))]

(***************************************************************************)
(* pat.c                                                                   *)
(***************************************************************************)
NoCell == Cell("none", <<>>, <<>>)

RECURSIVE TableEntries(_, _, _)
\* the entries of sections i..last of a table, in order
TableEntries(t, i, last) ==
    IF i > last THEN <<>>
    ELSE Body(t[i].bytes) \o TableEntries(t, i + 1, last)

patn_get_program(c) == IF Len(c.f) >= 2 THEN c.f[1] ELSE 0
patn_get_pid(c) == IF Len(c.f) >= 2 THEN c.f[2] ELSE NULL_PID

\* pat_table_find_program: the first program of the table with this number
pat_table_find_program(t, sid) ==
    LET ps == TableEntries(t, 0, psi_table_get_lastsection(t))
        hit == {i \in 1..Len(ps) : patn_get_program(ps[i]) = sid}
    IN  IF hit = {} THEN NoCell
        ELSE ps[CHOOSE i \in hit : \A j \in hit : i <= j]

\* pat_validate: syntax flag and table id (the length is a whole number of
\* programs by construction of the cells)
pat_validate(s) == psi_get_syntax(s) /\ psi_get_tableid(s) = PAT_TABLE_ID

\* A table validation that passes every PAT.
pat_table_validate_AcceptsAll(t) == TRUE

\* pat_table_validate: every section's CRC, and no program number listed
\* with two different PIDs
pat_table_validate(t) ==
    LET last == psi_table_get_lastsection(t)
        ps   == TableEntries(t, 0, last)
    IN  /\ \A i \in 0..last : psi_check_crc(t[i].bytes)
        /\ \A i \in 1..Len(ps) :
              patn_get_pid(ps[i]) =
                  patn_get_pid(pat_table_find_program(t, patn_get_program(ps[i])))

\* A program loop without the test for service id 0.
PatProgram_NitIsService(e, old, program) ==
    LET sid == patn_get_program(program)
        pid == patn_get_pid(program)
        old_program == IF psi_table_validate(old)
                       THEN pat_table_find_program(old, sid) ELSE NoCell
        old_pid == patn_get_pid(old_program)
    IN  IF old_program = NoCell
        THEN Log([e EXCEPT !.pid_table[pid].is_psi = TRUE,
                           !.service_list = service_set_pmt_pid(@, sid, pid)],
                 "new_program", sid, 0, pid)
        ELSE IF old_pid # pid /\ old_pid \in Pids
        THEN Log(psi_assemble_reset(
                   [e EXCEPT !.pid_table[pid].is_psi = TRUE,
                             !.pid_table[old_pid].is_psi = FALSE,
                             !.service_list = service_set_pmt_pid(@, sid, pid)],
                   old_pid),
                 "pid_changed", sid, old_pid, pid)
        ELSE e

\* the body of handle_pat's loop for one program of the new table
PatProgram(e, old, program) ==
    LET sid == patn_get_program(program)
        pid == patn_get_pid(program)
        old_program == IF psi_table_validate(old)
                       THEN pat_table_find_program(old, sid) ELSE NoCell
        old_pid == patn_get_pid(old_program)
    IN  IF sid = 0
        THEN IF pid # NIT_PID THEN Log(e, "nit_pid", 0, 0, pid) ELSE e
        ELSE IF old_program = NoCell
        THEN Log([e EXCEPT !.pid_table[pid].is_psi = TRUE,
                           !.service_list = service_set_pmt_pid(@, sid, pid)],
                 "new_program", sid, 0, pid)
        ELSE IF old_pid # pid
        THEN Log(psi_assemble_reset(
                   [e EXCEPT !.pid_table[pid].is_psi = TRUE,
                             !.pid_table[old_pid].is_psi = FALSE,
                             !.service_list = service_set_pmt_pid(@, sid, pid)],
                   old_pid),
                 "pid_changed", sid, old_pid, pid)
        ELSE e

RECURSIVE PatLoop(_, _, _, _)
PatLoop(e, old, programs, j) ==
    IF j > Len(programs) THEN e
    ELSE PatLoop(PatProgram(e, old, programs[j]), old, programs, j + 1)

handle_pat(e) ==
    LET next == e.pat_sections_next
        cur  == e.pat_sections_current
        last_section == psi_table_get_lastsection(next)
        e0   == TouchSlots(
                  IF psi_table_validate(cur)
                  THEN TouchSlots(e, cur, 0, psi_table_get_lastsection(cur))
                  ELSE e,
                  next, 0, last_section)
    IN  IF psi_table_validate(cur) /\ psi_table_compare(cur, next)
        THEN Log([psi_table_free(e0, next) EXCEPT !.pat_sections_next = EmptyTable],
                 "pat_identical", 0, 0, 0)
        ELSE IF ~pat_table_validate(next)
        THEN Log([psi_table_free(e0, next) EXCEPT !.pat_sections_next = EmptyTable],
                 "pat_invalid", 0, 0, 0)
        ELSE LET e1 == [e0 EXCEPT !.pat_sections_current = next,
                                  !.pat_sections_next = EmptyTable]
                 e2 == PatLoop(Log(e1, "pat_installed", 0, 0, 0), cur,
                               TableEntries(next, 0, last_section), 1)
             IN  IF psi_table_validate(cur) THEN psi_table_free(e2, cur) ELSE e2

\* A handle_pat_section that takes a PAT section from any PID.
handle_pat_section_AnyPid(e, pid, s) ==
    IF ~pat_validate(s.bytes)
    THEN Free(Log(e, "pat_section_invalid", 0, 0, pid), s)
    ELSE LET r == psi_table_section(e, "pat_sections_next", s)
         IN  IF ~r.complete THEN Free(r.e, s) ELSE handle_pat(r.e)

handle_pat_section(e, pid, s) ==
    IF pid # PAT_PID \/ ~pat_validate(s.bytes)
    THEN Free(Log(e, "pat_section_invalid", 0, 0, pid), s)
    ELSE LET r == psi_table_section(e, "pat_sections_next", s)
         IN  IF ~r.complete THEN Free(r.e, s) ELSE handle_pat(r.e)

(***************************************************************************)
(* sdt: handle_sdt_section / handle_sdt, and dvb_string_decode             *)
(***************************************************************************)
sdtn_get_sid(c) == IF Len(c.f) >= 2 THEN c.f[1] ELSE 0
sdtn_get_ca(c) == Len(c.f) >= 2 /\ c.f[2] = 1
desc_get_tag(d) == IF Len(d.f) >= 1 THEN d.f[1] ELSE 0
desc48_get_service(d) == Tail(d.f)

\* dvb_string_decode: a first byte below 0x20 selects the character set and
\* is not part of the text; the remaining bytes are converted to UTF-8,
\* which leaves the ASCII letters of the model as they are.
dvb_string_decode(str) ==
    IF Len(str) > 0 /\ str[1] < 32 THEN Tail(str) ELSE str

sdt_validate(s) ==
    /\ psi_get_syntax(s)
    /\ psi_get_tableid(s) = SDT_TABLE_ID_ACTUAL
    /\ \A i \in 1..Len(Body(s)) : Body(s)[i].k = "svc"

\* sdt_table_validate: every section's CRC, and no service listed twice
sdt_table_validate(t) ==
    LET last == psi_table_get_lastsection(t)
        ss   == TableEntries(t, 0, last)
    IN  /\ \A i \in 0..last : psi_check_crc(t[i].bytes)
        /\ \A i, j \in 1..Len(ss) :
              sdtn_get_sid(ss[i]) = sdtn_get_sid(ss[j]) => i = j

RECURSIVE SdtDescs(_, _, _, _, _)
\* the descriptor loop of one service
SdtDescs(e, sid, scrambled, descs, k) ==
    IF k > Len(descs) THEN e
    ELSE SdtDescs(
           IF desc_get_tag(descs[k]) = DESC_SERVICE
           THEN [e EXCEPT !.service_list =
                    service_update(@, sid,
                        dvb_string_decode(desc48_get_service(descs[k])),
                        0, scrambled)]
           ELSE e,
           sid, scrambled, descs, k + 1)

RECURSIVE SdtLoop(_, _, _)
SdtLoop(e, services, j) ==
    IF j > Len(services) THEN e
    ELSE SdtLoop(SdtDescs(Log(e, "sdt_service", sdtn_get_sid(services[j]), 0, 0),
                          sdtn_get_sid(services[j]), sdtn_get_ca(services[j]),
                          services[j].x, 1),
                 services, j + 1)

handle_sdt(e) ==
    LET next == e.sdt_sections_next
        cur  == e.sdt_sections_current
        last_section == psi_table_get_lastsection(next)
        e0   == TouchSlots(
                  IF psi_table_validate(cur)
                  THEN TouchSlots(e, cur, 0, psi_table_get_lastsection(cur))
                  ELSE e,
                  next, 0, last_section)
    IN  IF psi_table_validate(cur) /\ psi_table_compare(cur, next)
        THEN Log([psi_table_free(e0, next) EXCEPT !.sdt_sections_next = EmptyTable],
                 "sdt_identical", 0, 0, 0)
        ELSE IF ~sdt_table_validate(next)
        THEN Log([psi_table_free(e0, next) EXCEPT !.sdt_sections_next = EmptyTable],
                 "sdt_invalid", 0, 0, 0)
        ELSE LET e1 == [e0 EXCEPT !.sdt_sections_current = next,
                                  !.sdt_sections_next = EmptyTable]
                 e2 == SdtLoop(Log(e1, "sdt_installed", 0, 0, 0),
                               TableEntries(next, 0, last_section), 1)
             IN  IF psi_table_validate(cur) THEN psi_table_free(e2, cur) ELSE e2

handle_sdt_section(e, pid, s) ==
    IF pid # SDT_PID \/ ~sdt_validate(s.bytes)
    THEN Free(Log(e, "sdt_section_invalid", 0, 0, pid), s)
    ELSE LET r == psi_table_section(e, "sdt_sections_next", s)
         IN  IF ~r.complete THEN Free(r.e, s) ELSE handle_sdt(r.e)


(***************************************************************************)
(* pmt: handle_pmt                                                         *)
(***************************************************************************)
DataStreamTypes == {1, 2, 16, 27, 36, 3, 4, 15}
    \* VIDEO_MPEG1, VIDEO_MPEG2, VIDEO_MPEG4, VIDEO_AVC, VIDEO_HEVC,
    \* AUDIO_MPEG1, AUDIO_MPEG2, AUDIO_ADTS
DataDescTags == {106, 122, 127}      \* 0x6a AC-3, 0x7a E-AC-3, 0x7f DTS

pmtn_get_streamtype(c) == IF Len(c.f) >= 2 THEN c.f[1] ELSE 0
pmtn_get_pid(c) == IF Len(c.f) >= 2 THEN c.f[2] ELSE NULL_PID
pmt_get_program(s) == psi_get_tableidext(s)

pmt_validate(s) ==
    /\ psi_get_syntax(s)
    /\ psi_get_section(s) = 0
    /\ psi_get_lastsection(s) = 0
    /\ psi_get_tableid(s) = PMT_TABLE_ID
    /\ psi_check_crc(s)
    /\ \A i \in 1..Len(Body(s)) : Body(s)[i].k = "es"

\* pmtn_get_descs gives the descriptor loop with its two-byte length header
\* in front.  handle_pmt hands that address to descl_get_desc as it is and
\* adds the size of the header to the length, so the header is read as the
\* first descriptor: its tag is the byte holding the reserved bits and the
\* top four bits of the loop length, its length the low byte of the loop
\* length, and it ends where the loop ends (loops shorter than 256 bytes).
DESCS_RESERVED == 240                \* 0xf0, as pmtn_init writes it
PmtnDescl(es) == <<Desc(DESCS_RESERVED, es.x)>>

EsHasData(es) ==
    \/ pmtn_get_streamtype(es) \in DataStreamTypes
    \/ \E k \in 1..Len(PmtnDescl(es)) :
           desc_get_tag(PmtnDescl(es)[k]) \in DataDescTags

RECURSIVE PmtLoop(_, _, _)
PmtLoop(e, ess, i) ==
    IF i > Len(ess) THEN e
    ELSE PmtLoop([e EXCEPT !.pid_table[pmtn_get_pid(ess[i])].is_data =
                               EsHasData(ess[i])],
                 ess, i + 1)

handle_pmt(e, pid, s) ==
    IF ~pmt_validate(s.bytes)
    THEN Free(Log(e, "pmt_invalid", 0, 0, pid), s)
    ELSE LET service_id == pmt_get_program(s.bytes)
             last_pmt_version == service_get_pmt_version(e.service_list, service_id)
             current_pmt_version == psi_get_version(s.bytes)
         IN  IF current_pmt_version # last_pmt_version
             THEN Free(PmtLoop(
                         Log([e EXCEPT !.service_list =
                                 service_set_pmt_version(@, service_id,
                                                         current_pmt_version)],
                             "pmt_version", service_id, last_pmt_version,
                             current_pmt_version),
                         Body(s.bytes), 1),
                       s)
             ELSE Free(e, s)

(***************************************************************************)
(* monitor.c: handle_section                                               *)
(***************************************************************************)
handle_section(e, pid, s) ==
    LET table_id == psi_get_tableid(s.bytes)
        d == [e EXCEPT !.dispatched = Append(@, s.bytes)]
    IN  IF ~psi_validate(s.bytes)
        THEN Free(Log(e, "section_invalid", 0, 0, pid), s)
        ELSE IF table_id = PAT_TABLE_ID THEN handle_pat_section(d, pid, s)
        ELSE IF table_id = PMT_TABLE_ID THEN handle_pmt(d, pid, s)
        ELSE IF table_id = SDT_TABLE_ID_ACTUAL THEN handle_sdt_section(d, pid, s)
        ELSE Free(d, s)

(***************************************************************************)
(* psi_assemble_payload: appends payload to the PID's buffer and returns   *)
(* the section the buffer then holds, if it is complete.                   *)
(*   buf: the buffer afterwards, sec: the section or <<>>,                 *)
(*   rest: the payload not consumed                                        *)
(***************************************************************************)
psi_assemble_payload(buffer, payload) ==
    LET remaining == MaxSectionCells + PSI_HEADER_SIZE - Len(buffer)
        copy == Min(Len(payload), remaining)
        nb   == buffer \o SubSeq(payload, 1, copy)
        size == psi_get_length(nb) + PSI_HEADER_SIZE
    IN  IF Len(payload) = 0
        THEN [buf |-> buffer, sec |-> <<>>, rest |-> <<>>]
        ELSE IF Len(buffer) = 0 /\ payload[1] = Pad
        THEN [buf |-> <<>>, sec |-> <<>>, rest |-> <<>>]
        ELSE IF Len(nb) < PSI_HEADER_SIZE
        THEN [buf |-> nb, sec |-> <<>>, rest |-> SubSeq(payload, copy + 1, Len(payload))]
        ELSE IF size > MaxSectionCells
        THEN [buf |-> <<>>, sec |-> <<>>, rest |-> <<>>]
        ELSE IF size <= Len(nb)
        THEN [buf |-> <<>>, sec |-> SubSeq(nb, 1, size),
              rest |-> SubSeq(payload, copy - (Len(nb) - size) + 1, Len(payload))]
        ELSE [buf |-> nb, sec |-> <<>>, rest |-> SubSeq(payload, copy + 1, Len(payload))]

\* ts_check_discontinuity(cc, last_cc)
ts_check_discontinuity(cc, last_cc) == (last_cc + 17 - cc) % 16 # 0

\* ts_next_section: where the section the pointer_field announces starts
ts_next_section(pkt) ==
    IF pkt.pusi /\ pkt.pointer < Len(pkt.data)
    THEN SubSeq(pkt.data, pkt.pointer + 1, Len(pkt.data))
    ELSE <<>>

\* One call of psi_assemble_payload on the PID's buffer with what follows
\* it in the loop: psi_validate, then reset and free, or handle_section.
\*   e: the engine afterwards, rest: the payload left,
\*   stop: the unit is abandoned (continue / break)
AssembleStep(e, pid, payload) ==
    LET r  == psi_assemble_payload(e.pid_table[pid].psi_buffer, payload)
        e1 == [e EXCEPT !.pid_table[pid].psi_buffer = r.buf]
        s  == [id |-> NewId(e1), bytes |-> r.sec]
        e2 == [e1 EXCEPT !.live = @ \cup {s.id}]
    IN  IF r.sec = <<>> THEN [e |-> e1, rest |-> r.rest, stop |-> FALSE]
        ELSE IF ~psi_validate(r.sec)
        THEN [e |-> psi_assemble_reset(e1, pid), rest |-> <<>>, stop |-> TRUE]
        ELSE [e |-> handle_section(e2, pid, s), rest |-> r.rest, stop |-> FALSE]


(***************************************************************************)
(* State                                                                   *)
(***************************************************************************)
VARIABLES
    pid_table,              \* ts_pid_t pid_table[TS_MAX_PID], on Pids
    sync_errors, cc_errors, tei_errors, packets_all, packets_data,
    pat_sections_current, pat_sections_next,
    sdt_sections_current, sdt_sections_next,
    service_list,           \* the registry, head first
    live,                   \* sections allocated and not freed
    fault,                  \* the last memory error, "none" if there was none
    running,                \* the process has not died
    rest,                   \* payload left to the while loop of the unit in flight
    in_pid,                 \* the PID of the unit in flight (pe)
    unit,                   \* the unit last taken from the datagram
    log,                    \* out_log lines of the last step
    dispatched,             \* sections given to handle_section in the last step
    sent_cc,                \* per PID, the counter of the last unit sent on it
    breaks,                 \* steps of the sent counters that were not +1 mod 16
    role_reset,             \* PIDs demoted by a PAT and not seen since
    feed,                   \* the units of a split section, in the order sent
    payload_off,            \* payload - ts_packet: where in the unit the
                            \* pointer `payload` is, in the byte-level view
    payload_length,         \* the uint8_t of that name
    loop                    \* monitor_stream's own state: where it is, its
                            \* locals, the termination flag, what it wrote

window == <<payload_off, payload_length>>
vars == <<pid_table, sync_errors, cc_errors, tei_errors, packets_all,
          packets_data, pat_sections_current, pat_sections_next,
          sdt_sections_current, sdt_sections_next, service_list, live, fault,
          running, rest, in_pid, unit, log, dispatched, sent_cc, breaks,
          role_reset, feed, window, loop>>

counters == <<sync_errors, cc_errors, tei_errors, packets_all, packets_data>>
senderVars == <<sent_cc, breaks>>

Unit(sync, pid, cc, tei, pusi, pointer, data) ==
    [sync |-> sync, pid |-> pid, cc |-> cc, tei |-> tei, pusi |-> pusi,
     pointer |-> pointer, data |-> data]
NoUnit == Unit(FALSE, 0 - 1, 0, FALSE, FALSE, 0, <<>>)

\* The engine as one value, for the handlers; `oracle` is this step's
\* outcome of a read or free of freed memory.
Eng(o) ==
    [pid_table |-> pid_table,
     pat_sections_current |-> pat_sections_current,
     pat_sections_next |-> pat_sections_next,
     sdt_sections_current |-> sdt_sections_current,
     sdt_sections_next |-> sdt_sections_next,
     service_list |-> service_list, live |-> live, fault |-> fault,
     crashed |-> FALSE, oracle |-> o, log |-> <<>>, dispatched |-> <<>>]

SetEng(e) ==
    /\ pid_table' = e.pid_table
    /\ pat_sections_current' = e.pat_sections_current
    /\ pat_sections_next' = e.pat_sections_next
    /\ sdt_sections_current' = e.sdt_sections_current
    /\ sdt_sections_next' = e.sdt_sections_next
    /\ service_list' = e.service_list
    /\ live' = e.live
    /\ fault' = e.fault
    /\ running' = ~e.crashed
    /\ log' = e.log
    /\ dispatched' = e.dispatched

Demoted == {p \in Pids : pid_table[p].is_psi /\ ~pid_table'[p].is_psi}

\* monitor_stream's locals before the socket is opened: no baseline, no
\* row written, no exit status yet.
\*   pc: "setup", "top" (the test of terminate), "wait" (select and
\*       recvfrom), "units" (the for loop over the datagram), "stats"
\*       (stats_print reached by the timeout), "done" (returned)
\*   since: now - last_stats in seconds, kept up to STATS_PERIOD
\*   dgram_end: the value of packets_all at which the datagram is used up
\*   why: what ended the loop; status: the value returned
\*   row: the last CSV row; shown: the error numbers of the last console line
\*   sum: per counter, the window counts of all emissions added up
\*   caught: where the loop was when the signal came, and how many units
\*       of the datagram were still to do (left)
STATS_PERIOD == 10
NoRow == [cc |-> 0 - 1, sync |-> 0 - 1, tei |-> 0 - 1,
          total |-> 0 - 1, data |-> 0 - 1]
Baseline(s, c, t, a, d) ==
    [sync_errors |-> s, cc_errors |-> c, tei_errors |-> t,
     packets_all |-> a, packets_data |-> d]
InitLoop ==
    [pc |-> "setup", terminate |-> FALSE, since |-> 0, dgram_end |-> 0,
     last |-> Baseline(0, 0, 0, 0, 0), sum |-> Baseline(0, 0, 0, 0, 0),
     row |-> NoRow, shown |-> NoRow, caught |-> "none", left |-> 0,
     why |-> "none", status |-> 0 - 1]

InitEngine ==
    /\ loop = InitLoop
    /\ pid_table = [p \in Pids |-> InitPidEntry(p)]
    /\ sync_errors = 0 /\ cc_errors = 0 /\ tei_errors = 0
    /\ packets_all = 0 /\ packets_data = 0
    /\ pat_sections_current = EmptyTable /\ pat_sections_next = EmptyTable
    /\ sdt_sections_current = EmptyTable /\ sdt_sections_next = EmptyTable
    /\ service_list = <<>>
    /\ live = {} /\ fault = "none" /\ running = TRUE
    /\ rest = <<>> /\ in_pid = PAT_PID /\ unit = NoUnit
    /\ log = <<>> /\ dispatched = <<>>
    /\ sent_cc = [p \in Pids |-> CC_UNSET] /\ breaks = 0
    /\ role_reset = {}
    /\ payload_off = 0 /\ payload_length = 0

(***************************************************************************)
(* monitor_stream: one TS unit of the datagram, up to and including the    *)
(* first psi_assemble_payload                                              *)
(***************************************************************************)
\* A unit header step that does not record the unit's counter.
UnitHeader_KeepsCounter(e, pkt) ==
    [e EXCEPT !.pid_table[pkt.pid].packets = @ + 1]

UnitHeader(e, pkt) ==
    [e EXCEPT !.pid_table[pkt.pid].last_cc = pkt.cc,
              !.pid_table[pkt.pid].packets = @ + 1]

\* A continuity check that is skipped for a unit with the TEI flag.
HadCcError_NotOnTei(pkt) ==
    /\ ~pkt.tei
    /\ pid_table[pkt.pid].last_cc # CC_UNSET
    /\ ts_check_discontinuity(pkt.cc, pid_table[pkt.pid].last_cc)

HadCcError(pkt) ==
    /\ pid_table[pkt.pid].last_cc # CC_UNSET
    /\ ts_check_discontinuity(pkt.cc, pid_table[pkt.pid].last_cc)

IsNullUnit(pkt) == pkt.pid = TS_MAX_PID

\* A sync-byte test that passes every unit.
ts_validate_Always(pkt) == TRUE

\* ts_validate: the unit starts with the sync byte
ts_validate(pkt) == pkt.sync

\* A PSI branch that feeds the payload whether or not the unit had errors.
FirstAssemble_IgnoresErrors(e0, pkt, had_errors) ==
    IF ~e0.pid_table[pkt.pid].is_psi
    THEN [e |-> e0, rest |-> <<>>, stop |-> TRUE]
    ELSE AssembleStep(e0, pkt.pid, pkt.data)

\* if (pe->is_psi): reset on error, else the first psi_assemble_payload
FirstAssemble(e0, pkt, had_errors) ==
    IF ~e0.pid_table[pkt.pid].is_psi
    THEN [e |-> e0, rest |-> <<>>, stop |-> TRUE]
    ELSE IF had_errors
    THEN [e |-> psi_assemble_reset(e0, pkt.pid), rest |-> <<>>, stop |-> TRUE]
    ELSE AssembleStep(e0, pkt.pid, pkt.data)

RecvUnit(pkt, o) ==
    /\ running /\ rest = <<>> /\ packets_all < MaxUnits
    /\ unit' = pkt
    /\ packets_all' = packets_all + 1
    /\ sent_cc' = IF pkt.sync THEN [sent_cc EXCEPT ![pkt.pid] = pkt.cc] ELSE sent_cc
    /\ breaks' = IF /\ pkt.sync /\ sent_cc[pkt.pid] # CC_UNSET
                    /\ pkt.cc # (sent_cc[pkt.pid] + 1) % 16
                 THEN breaks + 1 ELSE breaks
    /\ UNCHANGED <<feed, window, loop>>
    /\ IF ~ts_validate(pkt)
       THEN /\ sync_errors' = sync_errors + 1
            /\ UNCHANGED <<pid_table, cc_errors, tei_errors, packets_data,
                           pat_sections_current, pat_sections_next,
                           sdt_sections_current, sdt_sections_next,
                           service_list, live, fault, running, rest, in_pid,
                           role_reset>>
            /\ log' = <<>> /\ dispatched' = <<>>
       ELSE IF IsNullUnit(pkt)
       THEN /\ UNCHANGED <<pid_table, sync_errors, cc_errors, tei_errors,
                           packets_data, pat_sections_current,
                           pat_sections_next, sdt_sections_current,
                           sdt_sections_next, service_list, live, fault,
                           running, rest, in_pid, role_reset>>
            /\ log' = <<>> /\ dispatched' = <<>>
       ELSE LET had_errors == HadCcError(pkt) \/ pkt.tei
                e0 == UnitHeader(Eng(o), pkt)
                a  == FirstAssemble(e0, pkt, had_errors)
            IN  /\ packets_data' = packets_data + 1
                /\ cc_errors' = IF HadCcError(pkt) THEN cc_errors + 1 ELSE cc_errors
                /\ tei_errors' = IF pkt.tei THEN tei_errors + 1 ELSE tei_errors
                /\ UNCHANGED sync_errors
                /\ SetEng(a.e)
                /\ in_pid' = pkt.pid
                /\ rest' = IF a.stop \/ a.e.crashed THEN <<>>
                           ELSE ts_next_section(pkt)
                /\ role_reset' = (role_reset \ {pkt.pid}) \cup Demoted

\* one turn of the while (payload_length) loop
NextSection(o) ==
    /\ running /\ rest # <<>>
    /\ LET a == AssembleStep(Eng(o), in_pid, rest)
       IN  /\ SetEng(a.e)
           /\ rest' = IF a.stop \/ a.e.crashed THEN <<>> ELSE a.rest
           /\ role_reset' = role_reset \cup Demoted
    /\ UNCHANGED <<counters, senderVars, in_pid, unit, feed, window, loop>>

(***************************************************************************)
(* The sender: elementary-stream units with any counter                    *)
(***************************************************************************)
CCs == {0, 1, 2, 15}
EsPids == {PMT_PID_A, NULL_PID}
EsUnits ==
    {Unit(TRUE, p, c, t, FALSE, 0, <<Pad>>) :
        p \in EsPids, c \in CCs, t \in BOOLEAN}
LostUnit == Unit(FALSE, PAT_PID, 0, FALSE, FALSE, 0, <<>>)

RecvEs == \E pkt \in EsUnits, o \in Oracles : RecvUnit(pkt, o)
RecvLost == \E o \in Oracles : RecvUnit(LostUnit, o)

InitCC == InitEngine /\ feed = <<>>
NextCC == RecvEs \/ RecvLost
SpecCC == InitCC /\ [][NextCC]_vars


(***************************************************************************)
(* The sender of PSI: sections built as the generator builds them, each    *)
(* PID with its own counter that goes up by one per unit                   *)
(***************************************************************************)
TSID == 1
NextCc(pid) == IF sent_cc[pid] = CC_UNSET THEN 0 ELSE (sent_cc[pid] + 1) % 16

\* a unit that starts a section right after the pointer_field and is filled
\* up with 0xff behind it
PsiUnit(pid, data) ==
    Unit(TRUE, pid, NextCc(pid), FALSE, TRUE, 0, data \o <<Pad>>)
\* a unit that goes on with the section of the unit before
ContUnit(pid, data) == Unit(TRUE, pid, NextCc(pid), FALSE, FALSE, 0, data)
\* an elementary-stream unit; jump: the sender skips one counter value
EsUnit(pid, jump) ==
    Unit(TRUE, pid, (NextCc(pid) + (IF jump THEN 1 ELSE 0)) % 16, FALSE,
         FALSE, 0, <<Pad>>)

PatSection(ver, sec, last, programs) ==
    MkSection(PAT_TABLE_ID, TSID, ver, sec, last, programs)
SdtSection(ver, services) ==
    MkSection(SDT_TABLE_ID_ACTUAL, TSID, ver, 0, 0, services)
PmtSection(sid, ver, streams) ==
    MkSection(PMT_TABLE_ID, sid, ver, 0, 0, streams)

NameTe == <<84, 101>>                      \* "Te"
PatOnA == PatSection(0, 0, 0, <<Prog(0, NIT_PID), Prog(1, PMT_PID_A)>>)
PatOnB == PatSection(1, 0, 0, <<Prog(0, NIT_PID), Prog(1, PMT_PID_B)>>)
PatPart0 == PatSection(2, 0, 1, <<Prog(1, PMT_PID_A)>>)
PatPart1 == PatSection(2, 1, 1, <<Prog(2, PMT_PID_B)>>)
SdtOne == SdtSection(0, <<Svc(1, 1, <<Desc(DESC_SERVICE, NameTe)>>)>>)
PmtOne == PmtSection(1, 0, <<Es(2, PMT_PID_B, <<>>)>>)

PatSections == {PatOnA, PatOnB, PatPart0, PatPart1}

RecvPat == \E s \in PatSections, o \in Oracles : RecvUnit(PsiUnit(PAT_PID, s), o)
RecvSdt == \E o \in Oracles : RecvUnit(PsiUnit(SDT_PID, SdtOne), o)
RecvPmt ==
    \E o \in Oracles :
        \/ RecvUnit(PsiUnit(PMT_PID_A, PmtOne), o)
        \/ RecvUnit(ContUnit(PMT_PID_A, SubSeq(PmtOne, 1, 2)), o)
RecvStream ==
    \E p \in {PMT_PID_A, PMT_PID_B}, j \in BOOLEAN, o \in Oracles :
        RecvUnit(EsUnit(p, j), o)
Assemble == \E o \in Oracles : NextSection(o)

Init == InitEngine /\ feed = <<>>
Next == RecvPat \/ RecvSdt \/ RecvPmt \/ RecvStream \/ Assemble
Spec == Init /\ [][Next]_vars


(***************************************************************************)
(* A sender of PMTs on the PID the PAT names for service 1: versions 0 and *)
(* 1, elementary streams of an allow-listed type, of a private type with   *)
(* an AC-3 or DTS descriptor, and of a private type with none.             *)
(***************************************************************************)
PmtVersions == {0, 1}
PmtAc3(ver) == PmtSection(1, ver, <<Es(6, PMT_PID_B, <<Desc(106, <<>>)>>)>>)
PmtPrivate(ver) == PmtSection(1, ver, <<Es(6, PMT_PID_B, <<>>)>>)
PmtVideo(ver) == PmtSection(1, ver, <<Es(2, PMT_PID_B, <<Desc(5, <<>>)>>)>>)
PmtTwo ==
    PmtSection(2, 0, <<Es(27, PMT_PID_B, <<>>),
                       Es(6, NULL_PID, <<Desc(5, <<>>), Desc(127, <<>>)>>)>>)
Pmts ==
    {PmtAc3(v) : v \in PmtVersions} \cup {PmtPrivate(v) : v \in PmtVersions}
        \cup {PmtVideo(v) : v \in PmtVersions} \cup {PmtOne, PmtTwo}

RecvPmtPat == \E o \in Oracles : RecvUnit(PsiUnit(PAT_PID, PatOnA), o)
RecvPmts == \E s \in Pmts, o \in Oracles : RecvUnit(PsiUnit(PMT_PID_A, s), o)

InitPmt == InitEngine /\ feed = <<>>
NextPmt == RecvPmtPat \/ RecvPmts \/ Assemble
SpecPmt == InitPmt /\ [][NextPmt]_vars


(***************************************************************************)
(* A sender on the PAT PID whose units may be damaged on the way: a        *)
(* counter value skipped, the transport error indicator set, or the sync   *)
(* byte lost.  The PAT goes out in one unit or in two units that go on     *)
(* with one another; a section may be too short for its own CRC.           *)
(***************************************************************************)
\* syntax flag set and a length that leaves no room for the CRC
InvalidSection == <<Hdr(PAT_TABLE_ID, 1, 0, TSID, 0, 0, 0)>>

Damages == {"ok", "jump", "tei", "lost"}
Damage(pkt, kind) ==
    CASE kind = "ok" -> pkt
      [] kind = "jump" -> [pkt EXCEPT !.cc = (@ + 1) % 16]
      [] kind = "tei" -> [pkt EXCEPT !.tei = TRUE]
      [] kind = "lost" -> [pkt EXCEPT !.sync = FALSE]

\* the end of PatOnB, then, where the pointer_field says, a new section
TailUnit(next) ==
    Unit(TRUE, PAT_PID, NextCc(PAT_PID), FALSE, TRUE, 2,
         SubSeq(PatOnB, 3, 4) \o next \o <<Pad>>)

ErrUnits ==
    {PsiUnit(PAT_PID, PatOnB),
     ContUnit(PAT_PID, SubSeq(PatOnB, 1, 2)),
     ContUnit(PAT_PID, SubSeq(PatOnB, 3, 4)),
     PsiUnit(PAT_PID, InvalidSection),
     TailUnit(InvalidSection)}

RecvDamaged ==
    \E pkt \in ErrUnits, kind \in Damages, o \in Oracles :
        RecvUnit(Damage(pkt, kind), o)

InitErr == InitEngine /\ feed = <<>>
NextErr == RecvDamaged \/ Assemble
SpecErr == InitErr /\ [][NextErr]_vars


(***************************************************************************)
(* A sender of whole tables, one section per unit: PATs that add, move and *)
(* swap services, a PAT with the NIT pointer alone, tables that fail their *)
(* validation, and SDTs with and without service descriptor.               *)
(***************************************************************************)
\* a section whose CRC does not match its contents
BadCrc(s) == SubSeq(s, 1, Len(s) - 1) \o <<Crc(<<>>)>>

NameT == <<5, 84>>                         \* character-set byte, then "T"
PatSwap == PatSection(2, 0, 0, <<Prog(2, PMT_PID_B), Prog(1, PMT_PID_A)>>)
PatNit == PatSection(3, 0, 0, <<Prog(0, PMT_PID_B)>>)
PatBadCrc == BadCrc(PatSection(4, 0, 0, <<Prog(1, PMT_PID_A)>>))
PatConflict ==
    PatSection(5, 0, 0, <<Prog(1, PMT_PID_A), Prog(1, PMT_PID_B)>>)
SdtTwo ==
    SdtSection(1, <<Svc(1, 0, <<Desc(DESC_SERVICE, NameT)>>), Svc(2, 1, <<>>)>>)
SdtBadCrc == BadCrc(SdtSection(2, <<Svc(2, 0, <<Desc(DESC_SERVICE, NameTe)>>)>>))

TabPats == {PatOnA, PatOnB, PatSwap, PatNit, PatBadCrc, PatConflict}
TabSdts == {SdtOne, SdtTwo, SdtBadCrc}
InvalidTables == {PatBadCrc, PatConflict, SdtBadCrc}

RecvTabPat ==
    \E s \in TabPats, o \in Oracles : RecvUnit(PsiUnit(PAT_PID, s), o)
RecvTabSdt ==
    \E s \in TabSdts, o \in Oracles : RecvUnit(PsiUnit(SDT_PID, s), o)

InitTab == InitEngine /\ feed = <<>>
NextTab == RecvTabPat \/ RecvTabSdt \/ Assemble
SpecTab == InitTab /\ [][NextTab]_vars


(***************************************************************************)
(* The byte-level view of a unit on a PSI-bearing PID: where ts_section    *)
(* and ts_next_section point for the header the unit has, and the          *)
(* payload_length monitor_stream computes from them.                       *)
(***************************************************************************)
TS_SIZE == 188
TS_HEADER_SIZE == 4

Uint8(n) == n % 256

\* a unit as its header bytes: the adaptation_field_control bits, byte 4
\* (the adaptation field length, if there is one) and the pointer_field
ByteUnit(pusi, has_payload, has_adaptation, adaptation, pointer) ==
    [sync |-> TRUE, pid |-> PAT_PID, cc |-> 0, tei |-> FALSE, pusi |-> pusi,
     pointer |-> pointer, data |-> <<>>, has_payload |-> has_payload,
     has_adaptation |-> has_adaptation, adaptation |-> adaptation]

AdaptationLengths == {0, 1, 100, 181, 182, 183, 184, 255}
PointerFields == {0, 1, 100, 182, 183, 255}
ByteUnits ==
    {ByteUnit(u, hp, ha, a, pf) :
        u \in BOOLEAN, hp \in BOOLEAN, ha \in BOOLEAN,
        a \in AdaptationLengths, pf \in PointerFields}

\* offsets from ts_packet
ts_payload(h) ==
    IF ~h.has_payload THEN TS_SIZE
    ELSE IF ~h.has_adaptation THEN TS_HEADER_SIZE
    ELSE TS_HEADER_SIZE + 1 + h.adaptation

ts_section(h) == IF ~h.pusi THEN ts_payload(h) ELSE ts_payload(h) + 1

ts_next_section_off(h) ==
    IF ~h.pusi THEN TS_SIZE
    ELSE IF ts_payload(h) >= TS_SIZE THEN TS_SIZE
    ELSE IF ts_payload(h) + h.pointer + 1 >= TS_SIZE THEN TS_SIZE
    ELSE ts_payload(h) + h.pointer + 1

\* all but the unit and the payload window
windowFrame ==
    <<pid_table, counters, pat_sections_current, pat_sections_next,
      sdt_sections_current, sdt_sections_next, service_list, live, fault,
      running, rest, in_pid, log, dispatched, senderVars, role_reset, feed,
      loop>>

\* payload = ts_section(ts_packet); payload_length = TS_SIZE - (payload - ts_packet)
FirstWindow ==
    /\ \E h \in ByteUnits :
          /\ unit' = h
          /\ payload_off' = ts_section(h)
          /\ payload_length' = Uint8(TS_SIZE - ts_section(h))
    /\ UNCHANGED windowFrame

\* payload = ts_next_section(ts_packet); payload_length = ...
LoopWindow ==
    /\ unit \in ByteUnits
    /\ payload_off' = ts_next_section_off(unit)
    /\ payload_length' = Uint8(TS_SIZE - ts_next_section_off(unit))
    /\ UNCHANGED <<unit, windowFrame>>

InitBytes == InitEngine /\ feed = <<>>
NextBytes == FirstWindow \/ LoopWindow
SpecBytes == InitBytes /\ [][NextBytes]_vars


(***************************************************************************)
(* The registry on its own: the calls of services.c in any order, for the  *)
(* service ids 0, 1 and 2.                                                 *)
(***************************************************************************)
RegIds == 0..2
RegPids == {PMT_PID_A, PMT_PID_B}
RegNames == {NullName, NameTe}

\* all but the registry
registryFrame ==
    <<pid_table, counters, pat_sections_current, pat_sections_next,
      sdt_sections_current, sdt_sections_next, live, fault, running, rest,
      in_pid, unit, log, dispatched, senderVars, role_reset, feed, window, loop>>

CallUpdate ==
    /\ \E id \in RegIds, n \in RegNames, p \in RegPids \cup {0}, s \in BOOLEAN :
          service_list' = service_update(service_list, id, n, p, s)
    /\ UNCHANGED registryFrame
CallSetPmtPid ==
    /\ \E id \in RegIds, p \in RegPids :
          service_list' = service_set_pmt_pid(service_list, id, p)
    /\ UNCHANGED registryFrame
CallSetName ==
    /\ \E id \in RegIds :
          service_list' = service_set_name(service_list, id, NameTe)
    /\ UNCHANGED registryFrame
CallSetScrambled ==
    /\ \E id \in RegIds, s \in BOOLEAN :
          service_list' = service_set_scrambled(service_list, id, s)
    /\ UNCHANGED registryFrame
CallSetPmtVersion ==
    /\ \E id \in RegIds :
          service_list' = service_set_pmt_version(service_list, id, 0)
    /\ UNCHANGED registryFrame

InitReg == InitEngine /\ feed = <<>>
NextReg ==
    \/ CallUpdate \/ CallSetPmtPid \/ CallSetName \/ CallSetScrambled
    \/ CallSetPmtVersion
SpecReg == InitReg /\ [][NextReg]_vars


(***************************************************************************)
(* A sender that also puts tables where they do not belong: PAT sections   *)
(* on the SDT PID and on a PMT PID, SDT sections on the PAT PID and on a   *)
(* PMT PID.                                                                *)
(***************************************************************************)
StrayPatPids == {SDT_PID, PMT_PID_A}
StraySdtPids == {PAT_PID, PMT_PID_A}

RecvHome ==
    \E o \in Oracles :
        \/ RecvUnit(PsiUnit(PAT_PID, PatOnA), o)
        \/ RecvUnit(PsiUnit(SDT_PID, SdtOne), o)
RecvStrayPat ==
    \E p \in StrayPatPids, o \in Oracles : RecvUnit(PsiUnit(p, PatOnB), o)
RecvStraySdt ==
    \E p \in StraySdtPids, o \in Oracles : RecvUnit(PsiUnit(p, SdtTwo), o)

InitStray == InitEngine /\ feed = <<>>
NextStray == RecvHome \/ RecvStrayPat \/ RecvStraySdt \/ Assemble
SpecStray == InitStray /\ [][NextStray]_vars


(***************************************************************************)
(* A sender whose PAT names the PAT PID itself as the PMT PID of service 1 *)
(* and later moves the service away, in a unit that goes on with the       *)
(* start of the next section behind the PAT.                               *)
(***************************************************************************)
PatSelf == PatSection(0, 0, 0, <<Prog(1, PAT_PID)>>)
PatMove == PatSection(1, 0, 0, <<Prog(1, PMT_PID_A)>>)
\* PatMove, and behind it the first half of PatOnB
TrailUnit ==
    Unit(TRUE, PAT_PID, NextCc(PAT_PID), FALSE, TRUE, 0,
         PatMove \o SubSeq(PatOnB, 1, 2))
DemoteUnits ==
    {PsiUnit(PAT_PID, PatSelf), PsiUnit(PAT_PID, PatMove), TrailUnit,
     PsiUnit(PAT_PID, PatOnB), ContUnit(PAT_PID, SubSeq(PatOnB, 3, 4)),
     ContUnit(PMT_PID_A, SubSeq(PmtOne, 1, 2))}

RecvDemote == \E pkt \in DemoteUnits, o \in Oracles : RecvUnit(pkt, o)

InitDemote == InitEngine /\ feed = <<>>
NextDemote == RecvDemote \/ Assemble
SpecDemote == InitDemote /\ [][NextDemote]_vars


(***************************************************************************)
(* monitor_stream around the units: the setup, the test of the termination *)
(* flag, select and recvfrom, the for loop over the datagram, stats_print, *)
(* and the cleanup.  The CSV file is open and the console is not quiet.    *)
(* Time is in seconds; select gives up after one.                          *)
(***************************************************************************)
MaxDgram == 2
engineVars == <<pid_table, sync_errors, cc_errors, tei_errors, packets_all,
                packets_data, pat_sections_current, pat_sections_next,
                sdt_sections_current, sdt_sections_next, service_list, live,
                fault, running, rest, in_pid, unit, log, dispatched, sent_cc,
                breaks, role_reset, feed, window>>

Setups == {"ok", "socket", "bind", "address", "join", "fopen"}
Waits == {"eintr", "select", "timeout", "recvfrom", "datagram"}
\* seconds a wait can take: none, some, a whole statistics period (select
\* gives up after one second, and the process may get the processor later)
Elapses == {0, STATS_PERIOD \div 2, STATS_PERIOD}

\* the setup up to the header row of the CSV: every failure returns 1
Setup ==
    /\ loop.pc = "setup"
    /\ \E outcome \in Setups :
          loop' = IF outcome = "ok" THEN [loop EXCEPT !.pc = "top"]
                  ELSE [loop EXCEPT !.pc = "done", !.why = outcome,
                                    !.status = 1]
    /\ UNCHANGED engineVars

\* signal_handler, for SIGINT or SIGTERM
Signal ==
    /\ loop.pc \notin {"setup", "done"} /\ ~loop.terminate
    /\ loop' = [loop EXCEPT !.terminate = TRUE, !.caught = loop.pc,
                            !.left = IF loop.pc = "units"
                                     THEN loop.dgram_end - packets_all ELSE 0]
    /\ UNCHANGED engineVars

\* what is behind the while loop: close, the summary, pat_cleanup,
\* sdt_cleanup, service_free_all, return 0
LeaveLoop(why, o) ==
    /\ SetEng([psi_table_free(psi_table_free(psi_table_free(psi_table_free(
                   Eng(o), pat_sections_current), pat_sections_next),
                   sdt_sections_current), sdt_sections_next)
               EXCEPT !.pat_sections_current = EmptyTable,
                      !.pat_sections_next = EmptyTable,
                      !.sdt_sections_current = EmptyTable,
                      !.sdt_sections_next = EmptyTable,
                      !.service_list = <<>>])
    /\ loop' = [loop EXCEPT !.pc = "done", !.why = why, !.status = 0]
    /\ UNCHANGED <<counters, senderVars, rest, in_pid, unit, role_reset, feed, window>>

\* if (terminate) break;
LoopTop ==
    /\ running /\ loop.pc = "top"
    /\ IF loop.terminate
       THEN \E o \in Oracles : LeaveLoop("signal", o)
       ELSE loop' = [loop EXCEPT !.pc = "wait"] /\ UNCHANGED engineVars

\* now - last_stats after d more seconds
Later(d) == Min(loop.since + d, STATS_PERIOD)

\* select, and recvfrom if a datagram is there; d seconds go by, a datagram
\* holds n units
Wait ==
    /\ running /\ loop.pc = "wait"
    /\ \E outcome \in Waits, d \in Elapses, n \in 0..MaxDgram, o \in Oracles :
          /\ outcome = "timeout" => d >= 1
          /\ n <= MaxUnits - packets_all
          /\ CASE outcome = "eintr" ->
                    /\ loop' = [loop EXCEPT !.pc = "top", !.since = Later(d)]
                    /\ UNCHANGED engineVars
               [] outcome = "timeout" ->
                    /\ loop' = [loop EXCEPT !.pc = "stats", !.since = Later(d)]
                    /\ UNCHANGED engineVars
               [] outcome = "datagram" ->
                    /\ loop' = [loop EXCEPT !.pc = "units", !.since = Later(d),
                                            !.dgram_end = packets_all + n]
                    /\ UNCHANGED engineVars
               [] outcome \in {"select", "recvfrom"} ->
                    LeaveLoop(outcome, o)

\* the for loop has used up the datagram
DatagramDone_OrSignalled ==
    /\ loop.pc = "units" /\ rest = <<>>
    /\ packets_all = loop.dgram_end \/ loop.terminate

DatagramDone ==
    /\ loop.pc = "units" /\ rest = <<>>
    /\ packets_all = loop.dgram_end

\* the counters now
Counters == Baseline(sync_errors, cc_errors, tei_errors, packets_all,
                     packets_data)
\* counter by counter, a - b
Minus(a, b) == [c \in DOMAIN a |-> a[c] - b[c]]
Plus(a, b) == [c \in DOMAIN a |-> a[c] + b[c]]

\* The end of an emission that keeps the old continuity-error baseline.
StoreBaseline_KeepsCc(l) ==
    [l EXCEPT !.last = [Counters EXCEPT !.cc_errors = l.last.cc_errors],
              !.since = 0]

\* last_stats = now; last_packet_count = packets_all; ...
StoreBaseline(l) == [l EXCEPT !.last = Counters, !.since = 0]

\* the console line and the CSV row of one window
Emit(l) ==
    StoreBaseline(
        [l EXCEPT
            !.shown = [cc |-> cc_errors - l.last.cc_errors,
                       sync |-> sync_errors - l.last.sync_errors,
                       tei |-> tei_errors - l.last.tei_errors,
                       total |-> packets_all - l.last.packets_all,
                       data |-> packets_data - l.last.packets_data],
            !.row = [cc |-> cc_errors, sync |-> sync_errors,
                     tei |-> tei_errors,
                     total |-> packets_all - l.last.packets_all,
                     data |-> packets_data - l.last.packets_data],
            !.sum = Plus(l.sum, Minus(Counters, l.last))])

\* A stats_print that, reached by the timeout, throws away what the PIDs
\* have reassembled so far.
StatsPrint_DropsReassembly ==
    /\ running
    /\ loop.pc = "stats" \/ DatagramDone
    /\ loop' = [(IF loop.since >= STATS_PERIOD THEN Emit(loop) ELSE loop)
                EXCEPT !.pc = "top"]
    /\ pid_table' = [p \in Pids |->
                        IF loop.pc = "stats"
                        THEN [pid_table[p] EXCEPT !.psi_buffer = <<>>]
                        ELSE pid_table[p]]
    /\ UNCHANGED <<counters, pat_sections_current, pat_sections_next,
                   sdt_sections_current, sdt_sections_next, service_list,
                   live, fault, running, rest, in_pid, unit, log, dispatched,
                   sent_cc, breaks, role_reset, feed, window>>

\* stats_print, reached by the timeout or behind the for loop
StatsPrint ==
    /\ running
    /\ loop.pc = "stats" \/ DatagramDone
    /\ loop' = [(IF loop.since >= STATS_PERIOD THEN Emit(loop) ELSE loop)
                EXCEPT !.pc = "top"]
    /\ UNCHANGED engineVars

\* one unit of the datagram
\* the two halves of a PAT, sound, and one unit damaged in each way
LoopUnits ==
    {PsiUnit(PAT_PID, PatOnB),
     ContUnit(PAT_PID, SubSeq(PatOnB, 1, 2)),
     ContUnit(PAT_PID, SubSeq(PatOnB, 3, 4)),
     Damage(ContUnit(PAT_PID, SubSeq(PatOnB, 1, 2)), "jump"),
     Damage(ContUnit(PAT_PID, SubSeq(PatOnB, 3, 4)), "tei"),
     Damage(ContUnit(PAT_PID, SubSeq(PatOnB, 1, 2)), "lost")}
LoopUnit ==
    /\ loop.pc = "units" /\ packets_all < loop.dgram_end
    /\ \E pkt \in LoopUnits, o \in Oracles : RecvUnit(pkt, o)

\* a unit of the datagram is still to do, or payload of the unit in flight
UnitDue ==
    /\ running /\ loop.pc = "units"
    /\ packets_all < loop.dgram_end \/ rest # <<>>

\* sound units alone: a PAT in one unit, and its two halves
SoundUnit ==
    /\ loop.pc = "units" /\ packets_all < loop.dgram_end
    /\ \E pkt \in {PsiUnit(PAT_PID, PatOnB),
                    ContUnit(PAT_PID, SubSeq(PatOnB, 1, 2)),
                    ContUnit(PAT_PID, SubSeq(PatOnB, 3, 4))}, o \in Oracles :
          RecvUnit(pkt, o)

InitLoopSpec == InitEngine /\ feed = <<>>
NextLoop ==
    Setup \/ Signal \/ LoopTop \/ Wait \/ LoopUnit \/ Assemble \/ StatsPrint
SpecLoop == InitLoopSpec /\ [][NextLoop]_vars


\* tables that come and go: service 1 in the PAT, then service 2 in its
\* place, and an SDT for service 1
PatOther == PatSection(1, 0, 0, <<Prog(2, PMT_PID_B)>>)
LifeUnit ==
    /\ loop.pc = "units" /\ packets_all < loop.dgram_end
    /\ \E pkt \in {PsiUnit(PAT_PID, PatOnA), PsiUnit(PAT_PID, PatOther),
                    PsiUnit(SDT_PID, SdtOne)}, o \in Oracles :
          RecvUnit(pkt, o)
NextLife ==
    Setup \/ Signal \/ LoopTop \/ Wait \/ LifeUnit \/ Assemble \/ StatsPrint
SpecLife == InitLoopSpec /\ [][NextLife]_vars

\* The program goes on whenever it can: the test of the flag and
\* stats_print are its own steps, and select comes back after a second at
\* the latest.  So are the units of a datagram it holds and the payload of
\* a unit: SoundUnit and Assemble are enabled exactly when UnitDue holds
\* (RecvUnit takes every unit, NextSection every payload), and their weak
\* fairness is written with that condition.
NextLoopFair ==
    Setup \/ Signal \/ LoopTop \/ Wait \/ SoundUnit \/ Assemble \/ StatsPrint
SpecLoopFair ==
    /\ InitLoopSpec /\ [][NextLoopFair]_vars
    /\ WF_vars(LoopTop \/ Wait \/ StatsPrint)
    /\ []<>~UnitDue


(***************************************************************************)
(* The sender of one PAT split over several units, as generate_pat and     *)
(* psi_split_section do it: the first unit starts the section, the others  *)
(* go on with it, the last one is filled up with 0xff.                     *)
(***************************************************************************)
RtPrograms == 1..(MaxSectionCells - 2)
RtSids(n) == 1..(n - 1)
RtPid(sid) == IF sid % 2 = 1 THEN PMT_PID_A ELSE PMT_PID_B
RtProgram(i) == IF i = 0 THEN Prog(0, NIT_PID) ELSE Prog(i, RtPid(i))
RtPat(n) == PatSection(0, 0, 0, [i \in 1..n |-> RtProgram(i - 1)])

Splits(s) ==
    {<<s>>}
      \cup {<<SubSeq(s, 1, a), SubSeq(s, a + 1, Len(s))>> : a \in 1..(Len(s) - 1)}
      \cup {<<SubSeq(s, 1, a), SubSeq(s, a + 1, b), SubSeq(s, b + 1, Len(s))>> :
               a \in 1..(Len(s) - 2), b \in 2..(Len(s) - 1)}

RtUnits(frags, cc) ==
    [i \in 1..Len(frags) |->
        Unit(TRUE, PAT_PID, (cc + i - 1) % 16, FALSE, i = 1, 0,
             frags[i] \o (IF i = Len(frags) THEN <<Pad>> ELSE <<>>))]

SendNext ==
    /\ packets_all < Len(feed)
    /\ \E o \in Oracles : RecvUnit(feed[packets_all + 1], o)

InitRoundTrip ==
    /\ InitEngine
    /\ \E n \in RtPrograms, cc \in {0, 15} :
          \E frags \in {f \in Splits(RtPat(n)) : \A i \in 1..Len(f) : f[i] # <<>>} :
              feed = RtUnits(frags, cc)
NextRoundTrip == SendNext \/ Assemble
SpecRoundTrip == InitRoundTrip /\ [][NextRoundTrip]_vars


(***************************************************************************)
(* Properties                                                              *)
(***************************************************************************)
\* this step took one unit from the datagram; unit' is that unit
UnitStep == packets_all' = packets_all + 1

Sids == {1, 2}

\* the PMT PID the installed PAT gives a service, 0 - 1 if it gives none
CurPid(sid) ==
    IF ~psi_table_validate(pat_sections_current) THEN 0 - 1
    ELSE IF pat_table_find_program(pat_sections_current, sid) = NoCell THEN 0 - 1
    ELSE patn_get_pid(pat_table_find_program(pat_sections_current, sid))

\* the service entries of the installed SDT that name a service
SdtEntries(sid) ==
    IF ~psi_table_validate(sdt_sections_current) THEN {}
    ELSE LET ss == TableEntries(sdt_sections_current, 0,
                                psi_table_get_lastsection(sdt_sections_current))
         IN  {ss[i] : i \in {j \in 1..Len(ss) : sdtn_get_sid(ss[j]) = sid}}

\* the names the service descriptors of an SDT entry give it
SdtNames(svc) ==
    {dvb_string_decode(desc48_get_service(svc.x[k])) :
        k \in {j \in 1..Len(svc.x) : desc_get_tag(svc.x[j]) = DESC_SERVICE}}

\* C1: for a unit with a valid sync byte on a PID that already holds a last
\* counter c, cc_errors goes up by one iff the unit's counter is neither
\* (c+1) mod 16 nor c itself (a duplicate), and is unchanged otherwise.
C1_DuplicateIsNoError ==
    [][(UnitStep /\ unit'.sync /\ pid_table[unit'.pid].last_cc # CC_UNSET) =>
          cc_errors' = cc_errors +
              (IF /\ unit'.cc # (pid_table[unit'.pid].last_cc + 1) % 16
                  /\ unit'.cc # pid_table[unit'.pid].last_cc
               THEN 1 ELSE 0)]_vars

\* C5: a unit with a valid sync byte on the null PID 0x1FFF adds one to
\* packets_all and changes neither packets_data nor cc_errors nor any PID
\* entry (last counter, packet count, reassembly buffer).
C5_NullPidSkipped ==
    [][(UnitStep /\ unit'.sync /\ unit'.pid = NULL_PID) =>
          /\ packets_data' = packets_data
          /\ cc_errors' = cc_errors
          /\ pid_table' = pid_table]_vars

\* C8: the first unit sent on a PID since initialisation leaves cc_errors as
\* it was, whatever its counter.
C8_FirstPacketNoCcError ==
    [][(UnitStep /\ unit'.sync /\ sent_cc[unit'.pid] = CC_UNSET) =>
          cc_errors' = cc_errors]_vars

\* the first unit of a second PID, with counter 15, after another PID had
\* a continuity error
C8_Reached ==
    /\ unit.sync /\ unit.cc = 15
    /\ sent_cc[unit.pid] = 15 /\ pid_table[unit.pid].packets = 1
    /\ cc_errors = 1 /\ breaks = 1

\* C10: as long as every unit sent followed its PID's counter by +1 mod 16,
\* cc_errors is 0; after exactly one unit that did not, cc_errors is 1 and
\* stays 1 while the units that follow go on by +1 from the new value.
C10_OneJumpOneError ==
    /\ breaks = 0 => cc_errors = 0
    /\ breaks = 1 => cc_errors = 1

\* four units on one PID: a jump, then two units that go on from it
C10_Reached ==
    /\ breaks = 1 /\ cc_errors = 1
    /\ pid_table[PMT_PID_A].packets = 4
    /\ unit.pid = PMT_PID_A /\ unit.cc = 1 /\ ~unit.tei

\* C2: when a step installs a PAT whose one change is that service s moves
\* from PMT PID A to B (every other service is on the PID it was on, or on
\* none as before), then after the step A is not PSI-bearing, A's
\* reassembly buffer is empty, B is PSI-bearing and the registry gives B as
\* the PMT PID of s.
C2_PidMigration ==
    [][\A sid \in Sids :
          (/\ running'
           /\ CurPid(sid) # 0 - 1 /\ CurPid(sid)' # 0 - 1
           /\ CurPid(sid)' # CurPid(sid)
           /\ \A other \in Sids \ {sid} : CurPid(other)' = CurPid(other)) =>
              /\ ~pid_table'[CurPid(sid)].is_psi
              /\ pid_table'[CurPid(sid)].psi_buffer = <<>>
              /\ pid_table'[CurPid(sid)'].is_psi
              /\ service_get_pmt_pid(service_list', sid) = CurPid(sid)']_vars

\* service 1 has moved from A to B, after A had carried units
C2_Reached ==
    /\ running
    /\ \E i \in 1..Len(log) :
          log[i] = LogLine("pid_changed", 1, PMT_PID_A, PMT_PID_B)
    /\ CurPid(1) = PMT_PID_B /\ CurPid(2) = 0 - 1
    /\ pid_table[PMT_PID_A].packets > 0
    /\ ~pid_table[PMT_PID_A].is_psi /\ pid_table[PMT_PID_B].is_psi

\* C3: a step that installs an SDT leaves the PMT PID of every registry
\* entry as it was.
C3_SdtKeepsPmtPid ==
    [][(running' /\ sdt_sections_current' # sdt_sections_current) =>
          \A i \in 1..Len(service_list) :
              service_get_pmt_pid(service_list', service_list[i].service_id)
                  = service_list[i].pmt_pid]_vars

\* C4: no slot of a PAT or SDT snapshot, next or current, holds a section
\* that has been freed, and no section is freed twice.
C4_NoFreedSectionInSnapshot ==
    /\ TableIds(pat_sections_next) \subseteq live
    /\ TableIds(pat_sections_current) \subseteq live
    /\ TableIds(sdt_sections_next) \subseteq live
    /\ TableIds(sdt_sections_current) \subseteq live
    /\ fault = "none"

\* C7: once the installed PAT and the installed SDT both name service s,
\* the registry entry of s has the name and the scrambled flag of the SDT
\* and the PMT PID of the PAT.
C7_PatAndSdtMerged ==
    \A sid \in Sids :
        (running /\ CurPid(sid) # 0 - 1 /\ SdtEntries(sid) # {}) =>
            /\ service_get_pmt_pid(service_list, sid) = CurPid(sid)
            /\ \A svc \in SdtEntries(sid) :
                  /\ service_scrambled(service_list, sid) = sdtn_get_ca(svc)
                  /\ service_get_name(service_list, sid) \in SdtNames(svc)

\* C9: the first unit on a PID after a PAT PID migration demoted it from
\* PSI-bearing leaves cc_errors as it was, whatever its counter.
C9_NoErrorAfterDemotion ==
    [][(UnitStep /\ unit'.sync /\ unit'.pid \in role_reset) =>
          cc_errors' = cc_errors]_vars

\* the section the units of feed carry
RECURSIVE RtCells(_)
RtCells(i) ==
    IF i > Len(feed) THEN <<>>
    ELSE SelectSeq(feed[i].data, LAMBDA c : c # Pad) \o RtCells(i + 1)
RtDone == feed # <<>> /\ packets_all = Len(feed) /\ rest = <<>> /\ running

\* C6: when the units of a PAT with N programs, split over 1, 2 or 3 units
\* with consecutive counters, have all gone through an empty engine, the
\* registry has N-1 entries, each with the PMT PID the PAT gives its
\* service.
C6_SplitPatRoundTrip ==
    RtDone =>
        /\ service_count(service_list) = Len(RtCells(1)) - 3
        /\ \A i \in 1..Len(Body(RtCells(1))) :
              patn_get_program(Body(RtCells(1))[i]) # 0 =>
                  service_get_pmt_pid(service_list,
                                      patn_get_program(Body(RtCells(1))[i]))
                      = patn_get_pid(Body(RtCells(1))[i])

\* the tables and the registry are as they were
TablesKept ==
    UNCHANGED <<pat_sections_current, pat_sections_next,
                sdt_sections_current, sdt_sections_next, service_list>>

\* unit' is a unit with a valid sync byte whose counter does not follow the
\* counter of the unit sent before it on its PID
SentJump ==
    /\ sent_cc[unit'.pid] # CC_UNSET
    /\ unit'.cc # (sent_cc[unit'.pid] + 1) % 16

\* C11: a unit that fails the sync-byte test adds one to sync_errors and to
\* packets_all and changes no PID entry, no other counter, no table snapshot
\* and no registry entry.
C11_SyncErrorOnlyCounts ==
    [][(UnitStep /\ ~unit'.sync) =>
          /\ sync_errors' = sync_errors + 1
          /\ UNCHANGED <<pid_table, cc_errors, tei_errors, packets_data>>
          /\ TablesKept]_vars

\* a unit without sync byte arrived while a PAT was installed and the first
\* half of the next one was in the reassembly buffer
C11_Reached ==
    /\ ~unit.sync /\ unit.pid = PAT_PID /\ sync_errors = 1
    /\ psi_table_validate(pat_sections_current)
    /\ pid_table[PAT_PID].psi_buffer = SubSeq(PatOnB, 1, 2)

\* C12: a unit on a PSI-bearing PID that has the transport error indicator
\* set or does not follow the PID's counter leaves the PID's reassembly
\* buffer empty, has none of its payload fed to the reassembler, dispatches
\* no section and changes no table and no registry entry.
C12_ErrorDropsReassembly ==
    [][(/\ UnitStep /\ unit'.sync /\ pid_table[unit'.pid].is_psi
        /\ (unit'.tei \/ SentJump)) =>
          /\ pid_table'[unit'.pid].psi_buffer = <<>>
          /\ dispatched' = <<>> /\ rest' = <<>>
          /\ TablesKept]_vars

\* the second half of a PAT arrived with the transport error indicator set,
\* after another unit on the PID, and no PAT was installed
C12_Reached ==
    /\ unit.sync /\ unit.tei /\ unit.pid = PAT_PID
    /\ unit.data = SubSeq(PatOnB, 3, 4)
    /\ pid_table[PAT_PID].packets = 2 /\ tei_errors = 1 /\ cc_errors = 0
    /\ pid_table[PAT_PID].psi_buffer = <<>>
    /\ ~psi_table_validate(pat_sections_current)

\* the section that feeding the payload to the PID's buffer completes
Assembled(pid, payload) ==
    psi_assemble_payload(pid_table[pid].psi_buffer, payload).sec

\* unit' is a unit without error on a PSI-bearing PID
CleanPsiUnit ==
    /\ UnitStep /\ unit'.sync /\ ~unit'.tei /\ ~SentJump
    /\ pid_table[unit'.pid].is_psi

Dispatches(pid, s) == running' /\ in_pid' = pid /\ dispatched' = <<s>>

\* with section s in its slot, table next is byte for byte table cur
CompletesCopyOf(cur, next, s) ==
    /\ psi_table_validate(cur)
    /\ psi_get_lastsection(cur[0].bytes) = psi_get_lastsection(s)
    /\ \A i \in 0..psi_get_lastsection(s) :
          cur[i].bytes = IF i = psi_get_section(s) THEN s ELSE next[i].bytes

\* apart from the counter, packet count and buffer of the PID the unit
\* came on, the PID table is as it was
PidTableKept ==
    \A p \in Pids :
        /\ pid_table'[p].is_psi = pid_table[p].is_psi
        /\ pid_table'[p].is_data = pid_table[p].is_data
        /\ p # in_pid' => pid_table'[p] = pid_table[p]

\* C14: a step that hands the PAT or SDT engine the section completing a
\* table byte for byte identical to the current snapshot leaves the next
\* snapshot empty and the current snapshot, the PID table and the registry
\* as they were.
C14_IdenticalTableShortcut ==
    [][/\ \A s \in TabPats :
            (/\ Dispatches(PAT_PID, s)
             /\ CompletesCopyOf(pat_sections_current, pat_sections_next, s)) =>
                /\ pat_sections_next' = EmptyTable
                /\ pat_sections_current' = pat_sections_current
                /\ UNCHANGED <<sdt_sections_current, sdt_sections_next,
                               service_list>>
                /\ PidTableKept
       /\ \A s \in TabSdts :
            (/\ Dispatches(SDT_PID, s)
             /\ CompletesCopyOf(sdt_sections_current, sdt_sections_next, s)) =>
                /\ sdt_sections_next' = EmptyTable
                /\ sdt_sections_current' = sdt_sections_current
                /\ UNCHANGED <<pat_sections_current, pat_sections_next,
                               service_list>>
                /\ PidTableKept]_vars

\* the installed PAT has been sent again, in a unit of its own, after an
\* SDT was installed too
C14_Reached ==
    /\ running /\ unit.pid = PAT_PID /\ unit.data = PatOnB \o <<Pad>>
    /\ pid_table[PAT_PID].packets = 2
    /\ dispatched = <<PatOnB>> /\ pat_sections_current[0].bytes = PatOnB
    /\ \E i \in 1..Len(log) : log[i].what = "pat_identical"
    /\ psi_table_validate(sdt_sections_current)
    /\ unit.sync /\ packets_all = 3 /\ rest = unit.data

\* C15: a step that hands the PAT or SDT engine a complete table that fails
\* its validation (a wrong CRC, a program listed with two PIDs) leaves the
\* next snapshot empty and the current snapshot, the PID table and the
\* registry as they were.
C15_InvalidTableDiscarded ==
    [][\A s \in InvalidTables :
          (Dispatches(PAT_PID, s) \/ Dispatches(SDT_PID, s)) =>
              /\ pat_sections_next' = EmptyTable
              /\ sdt_sections_next' = EmptyTable
              /\ UNCHANGED <<pat_sections_current, sdt_sections_current,
                             service_list>>
              /\ PidTableKept]_vars

\* a PAT that lists service 1 with two PIDs has been handed over while a
\* PAT and an SDT were installed
C15_Reached ==
    /\ running /\ dispatched = <<PatConflict>>
    /\ \E i \in 1..Len(log) : log[i].what = "pat_invalid"
    /\ pat_sections_current[0].bytes = PatOnB
    /\ psi_table_validate(sdt_sections_current)

\* the programs of the installed PAT, in table order
CurPrograms ==
    IF ~psi_table_validate(pat_sections_current) THEN <<>>
    ELSE TableEntries(pat_sections_current, 0,
                      psi_table_get_lastsection(pat_sections_current))

\* this step installed a PAT
PatInstalled == running' /\ pat_sections_current' # pat_sections_current

\* C16: after a step that installs a PAT, every service id other than 0
\* that the PAT lists and the previous PAT did not (or there was none) has
\* its PMT PID marked PSI-bearing and recorded in the registry.
C16_NewProgramMarked ==
    [][PatInstalled =>
          \A sid \in Sids :
              (CurPid(sid) = 0 - 1 /\ CurPid(sid)' # 0 - 1) =>
                  /\ pid_table'[CurPid(sid)'].is_psi
                  /\ service_get_pmt_pid(service_list', sid) = CurPid(sid)']_vars

\* the PIDs a PAT's programs give to services, not to the NIT
ServicePids(programs) ==
    {patn_get_pid(programs[i]) :
        i \in {j \in 1..Len(programs) : patn_get_program(programs[j]) # 0}}

\* C17: a step that installs a PAT makes no registry entry for service id
\* 0, leaves the PSI flag of every PID that only the NIT pointer names as
\* it was, and, if the PAT has no other program, leaves the registry as it
\* was.
C17_NitPointerIsNoService ==
    [][PatInstalled =>
          /\ \A i \in 1..Len(service_list') : service_list'[i].service_id # 0
          /\ \A p \in Pids \ (ServicePids(CurPrograms) \cup ServicePids(CurPrograms')) :
                pid_table'[p].is_psi = pid_table[p].is_psi
          /\ ServicePids(CurPrograms') = {} => service_list' = service_list]_vars

\* the PAT with the NIT pointer on PID B alone is installed, after a PAT
\* with a service on PID A; B is not PSI-bearing
C17_Reached ==
    /\ running /\ pat_sections_current[0].bytes = PatNit
    /\ \E i \in 1..Len(log) : log[i] = LogLine("nit_pid", 0, 0, PMT_PID_B)
    /\ ~pid_table[PMT_PID_B].is_psi /\ pid_table[PMT_PID_A].is_psi
    /\ service_count(service_list) = 1

\* the service entries of the installed SDT
CurServices ==
    IF ~psi_table_validate(sdt_sections_current) THEN <<>>
    ELSE TableEntries(sdt_sections_current, 0,
                      psi_table_get_lastsection(sdt_sections_current))

\* C18: after a step that installs an SDT, the registry has an entry for
\* every service entry of the SDT, with the decoded name of its service
\* descriptor and with its CA flag as scrambled flag.
C18_SdtServicesRegistered ==
    [][(running' /\ sdt_sections_current' # sdt_sections_current) =>
          \A i \in 1..Len(CurServices') :
              LET svc == CurServices'[i]
                  sid == sdtn_get_sid(svc)
              IN  /\ service_get_idx(service_list', sid) # 0
                  /\ service_scrambled(service_list', sid) = sdtn_get_ca(svc)
                  /\ \A n \in SdtNames(svc) :
                        service_get_name(service_list', sid) = n]_vars

\* the PMT version the registry holds for a service
RecordedVersion(sid) == service_get_pmt_version(service_list, sid)

\* the recorded version of the service changed, and not by a step that gave
\* handle_pmt a PMT of that service with the version now recorded
VersionWrittenElsewhere(sid) ==
    /\ service_get_pmt_version(service_list', sid) # RecordedVersion(sid)
    /\ ~\E s \in Pmts :
          /\ Dispatches(PMT_PID_A, s)
          /\ pmt_get_program(s) = sid
          /\ psi_get_version(s) = service_get_pmt_version(service_list', sid)

\* this step recorded the version of PMT s and wrote the data-bearing flag of
\* its elementary streams: set for an allow-listed stream type, cleared for
\* another type without descriptors
PmtProcessed(s) ==
    /\ service_get_pmt_version(service_list', pmt_get_program(s)) =
           psi_get_version(s)
    /\ log' = <<LogLine("pmt_version", pmt_get_program(s),
                        RecordedVersion(pmt_get_program(s)),
                        psi_get_version(s))>>
    /\ \A i \in 1..Len(Body(s)) :
          LET es == Body(s)[i]
          IN  /\ pmtn_get_streamtype(es) \in DataStreamTypes =>
                    pid_table'[pmtn_get_pid(es)].is_data
              /\ (pmtn_get_streamtype(es) \notin DataStreamTypes /\ es.x = <<>>) =>
                    ~pid_table'[pmtn_get_pid(es)].is_data

\* C19: every service starts with the sentinel as its recorded version, and
\* nothing but a processed PMT of the service replaces it, so the first
\* valid PMT of a service never meets its own version recorded.  A step
\* that hands handle_pmt a valid PMT processes it when its version is not
\* the recorded one; when its version is the recorded one, the registry and
\* every PID's flags are as they were, and no PID but the one the unit came
\* on changes.
C19_PmtVersionGate ==
    /\ \A sid \in Sids : RecordedVersion(sid) = PMT_VERSION_UNKNOWN
    /\ PMT_VERSION_UNKNOWN \notin 0..31
    /\ [][/\ \A sid \in Sids : ~VersionWrittenElsewhere(sid)
          /\ \A s \in Pmts :
                Dispatches(PMT_PID_A, s) =>
                    /\ psi_get_version(s) # RecordedVersion(pmt_get_program(s)) =>
                           PmtProcessed(s)
                    /\ psi_get_version(s) = RecordedVersion(pmt_get_program(s)) =>
                           /\ service_list' = service_list
                           /\ log' = <<>>
                           /\ PidTableKept]_vars

\* the third PMT unit of service 1 brought the version an earlier one had
\* recorded, after another PMT had made the other stream's PID data-bearing
C19_Reached ==
    /\ running /\ unit.pid = PMT_PID_A /\ pid_table[PMT_PID_A].packets = 3
    /\ dispatched = <<PmtPrivate(1)>> /\ log = <<>>
    /\ RecordedVersion(1) = 1
    /\ pid_table[PMT_PID_B].is_data

\* the data-bearing flag the allow-lists give an elementary-stream entry
AllowListed(es) ==
    \/ pmtn_get_streamtype(es) \in DataStreamTypes
    \/ \E k \in 1..Len(es.x) : desc_get_tag(es.x[k]) \in DataDescTags

\* C20: a step that processes a PMT leaves, for every elementary-stream
\* entry, the data-bearing flag of its PID set iff its stream type is
\* allow-listed or one of its descriptors has tag 0x6a, 0x7a or 0x7f.
C20_EsClassified ==
    [][\A s \in Pmts :
          (/\ Dispatches(PMT_PID_A, s)
           /\ psi_get_version(s) # RecordedVersion(pmt_get_program(s))) =>
              \A i \in 1..Len(Body(s)) :
                  pid_table'[pmtn_get_pid(Body(s)[i])].is_data =
                      AllowListed(Body(s)[i])]_vars

\* the service ids the registry has entries for
RegistryIds == {service_list[i].service_id : i \in 1..Len(service_list)}

\* C21: the registry gets a new entry only in a step that hands the PAT or
\* SDT engine a section; a step that hands handle_pmt a PMT adds none.
C21_EntriesOnlyFromPatAndSdt ==
    [][service_count(service_list') > service_count(service_list) =>
          /\ Len(dispatched') = 1
          /\ psi_get_tableid(dispatched'[1]) \in
                 {PAT_TABLE_ID, SDT_TABLE_ID_ACTUAL}]_vars

\* this step is stats_print with the statistics period over: it writes the
\* console line and the CSV row of the window and closes the window
Emission ==
    /\ loop.pc \in {"stats", "units"} /\ loop'.pc = "top"
    /\ loop.since >= STATS_PERIOD

\* C22: the CSV row an emission writes has, in each of its five count
\* fields, the increase of that counter since the emission before.
C22_CsvRowHasWindowCounts ==
    [][Emission =>
          /\ loop'.row.cc = cc_errors - loop.last.cc_errors
          /\ loop'.row.sync = sync_errors - loop.last.sync_errors
          /\ loop'.row.tei = tei_errors - loop.last.tei_errors
          /\ loop'.row.total = packets_all - loop.last.packets_all
          /\ loop'.row.data = packets_data - loop.last.packets_data]_vars

\* C23: no counter is below its baseline, the window counts of the
\* emissions so far add up, counter by counter, to the baseline, and an
\* emission makes the counters' values the baseline.
C23_WindowsAddUp ==
    /\ [](/\ \A c \in DOMAIN Counters : Counters[c] - loop.last[c] >= 0
          /\ loop.sum = loop.last)
    /\ [][Emission => loop'.last = Counters /\ loop'.sum = Counters]_vars

\* a second emission closed a window that had units and errors in it, as
\* the first one had
C23_Reached ==
    /\ loop.pc = "top" /\ loop.last = Counters
    /\ loop.shown.total >= 1 /\ loop.shown.total < packets_all
    /\ loop.shown.sync >= 1 /\ loop.shown.sync < sync_errors
    /\ loop.shown.cc >= 1 /\ tei_errors >= 1

\* what C24 calls protocol state
ProtocolState ==
    <<pid_table, pat_sections_current, pat_sections_next,
      sdt_sections_current, sdt_sections_next, service_list, counters>>

\* C24: the two steps of an iteration whose select timed out, the wait and
\* the stats_print behind it, leave every PID entry, the table snapshots,
\* the registry and the five counters as they were; and the sound second
\* half of a section completes the first half the buffer holds, whatever
\* waits lie between them.
C24_TimeoutKeepsProtocolState ==
    [][/\ ((loop.pc = "wait" /\ loop'.pc = "stats") \/ loop.pc = "stats") =>
             UNCHANGED ProtocolState
       /\ (/\ UnitStep
           /\ pid_table[PAT_PID].psi_buffer = SubSeq(PatOnB, 1, 2)
           /\ unit' = ContUnit(PAT_PID, SubSeq(PatOnB, 3, 4))
           /\ ~HadCcError(unit')) =>
              dispatched' = <<PatOnB>>]_vars

\* a timeout closed a statistics window while the PAT PID held the first
\* half of a section, and stats_print is done
C24_Reached ==
    /\ loop.pc = "top" /\ loop.since = 0 /\ loop.shown.total = 0
    /\ packets_all = 1
    /\ pid_table[PAT_PID].psi_buffer = SubSeq(PatOnB, 1, 2)

\* C25: the loop ends because of the flag only from the test at its top; it
\* leaves the for loop only with the datagram used up, flag or no flag; and
\* once the flag is set the loop ends.
C25_FlagSeenAtTopOnly ==
    /\ [][/\ (loop'.why = "signal" /\ loop.why = "none") =>
                 loop.pc = "top" /\ loop.terminate
          /\ (loop.pc = "units" /\ loop'.pc # "units") =>
                 packets_all = loop.dgram_end /\ rest = <<>>]_vars
    /\ (loop.terminate ~> loop.pc = "done")

\* the signal came with two units of the datagram still to do, both were
\* done, and the loop has ended because of the signal
C25_Reached ==
    /\ loop.pc = "done" /\ loop.why = "signal"
    /\ loop.caught = "units" /\ loop.left = 2
    /\ packets_all = loop.dgram_end

\* C27: monitor_stream has returned 0 exactly if the signal ended it.
C27_ZeroOnlyOnSignal ==
    loop.pc = "done" => (loop.status = 0 <=> loop.why = "signal")

\* C26: whatever units have been received, the process has not died of
\* them: the loop is there to take the next unit.
C26_LoopSurvivesEveryUnit == running

\* C28: between two units, a PID that is not PSI-bearing has an empty
\* reassembly buffer.
C28_NoBufferWithoutPsiRole ==
    rest = <<>> =>
        \A p \in Pids : ~pid_table[p].is_psi => pid_table[p].psi_buffer = <<>>

\* C29: a step takes a service id out of the registry, or makes the
\* registry shorter, only if it is the step that ends monitor_stream behind
\* its loop, with the cleanup.
C29_EntriesLiveUntilCleanup ==
    [][(\/ ~(RegistryIds \subseteq {service_list'[i].service_id :
                                        i \in 1..Len(service_list')})
        \/ service_count(service_list') < service_count(service_list)) =>
          /\ loop.pc \in {"top", "wait"} /\ loop'.pc = "done"
          /\ service_list' = <<>>]_vars

\* the installed PAT names service 2 alone, no SDT is installed, and the
\* registry still has service 1, which an earlier PAT named
C29_Reached ==
    /\ loop.pc = "units" /\ running
    /\ pat_sections_current[0].bytes = PatOther
    /\ ~psi_table_validate(sdt_sections_current)
    /\ RegistryIds = {1, 2}

\* the counter of unit' is neither the one its PID had last nor the next
CounterJumps ==
    /\ pid_table[unit'.pid].last_cc # CC_UNSET
    /\ unit'.cc # pid_table[unit'.pid].last_cc
    /\ unit'.cc # (pid_table[unit'.pid].last_cc + 1) % 16
\* the counter of unit' is the first of its PID or follows the last one
CounterInOrder ==
    \/ pid_table[unit'.pid].last_cc = CC_UNSET
    \/ unit'.cc = (pid_table[unit'.pid].last_cc + 1) % 16

\* C30: a unit with a valid sync byte and the TEI flag adds one to
\* tei_errors, becomes the last counter of its PID and adds one to the
\* PID's packet count; it adds one to cc_errors as well if its counter
\* jumps, and nothing if its counter is in order.
C30_TeiAndCcIndependent ==
    [][(UnitStep /\ unit'.sync /\ unit'.tei) =>
          /\ tei_errors' = tei_errors + 1
          /\ pid_table'[unit'.pid].last_cc = unit'.cc
          /\ pid_table'[unit'.pid].packets = pid_table[unit'.pid].packets + 1
          /\ CounterJumps => cc_errors' = cc_errors + 1
          /\ CounterInOrder => cc_errors' = cc_errors]_vars

\* the second unit of a PID had the TEI flag and a counter that jumped
C30_Reached ==
    /\ packets_all = 2 /\ unit.sync /\ unit.tei
    /\ pid_table[unit.pid].packets = 2
    /\ tei_errors = 1 /\ cc_errors = 1 /\ breaks = 1

\* what the first psi_assemble_payload of unit' leaves of its payload
FirstLeft ==
    psi_assemble_payload(pid_table[unit'.pid].psi_buffer, unit'.data).rest

\* C36: the loop behind the first psi_assemble_payload of a unit is given
\* only payload the first call has not taken, and a unit that carries one
\* section, once, has it dispatched in one step only.
C36_PayloadFedOnce ==
    [][/\ CleanPsiUnit => Len(rest') <= Len(FirstLeft)
       /\ (/\ ~UnitStep /\ rest # <<>>
           /\ unit.pusi /\ unit.pointer = 0
           /\ unit.data = PatOnA \o <<Pad>>) => dispatched' = <<>>]_vars

\* C31: the unit whose payload brings the end of a section that the units
\* before it began, all of them without error on the PAT PID, has that
\* section dispatched by its first psi_assemble_payload, and nothing is
\* left of its payload for the loop but stuffing.
C31_CompletedSectionDispatched ==
    [][(/\ CleanPsiUnit /\ Len(feed) >= 2
        /\ packets_all' = Len(feed) /\ unit' = feed[Len(feed)]) =>
           /\ dispatched' = <<RtCells(1)>>
           /\ rest' = <<>>]_vars

\* this step gave handle_section a section with table id tid that came on
\* a PID other than home
StrayDispatch(tid, home) ==
    /\ running' /\ in_pid' # home
    /\ Len(dispatched') = 1 /\ psi_get_tableid(dispatched'[1]) = tid

\* C32: a step that hands over a PAT section that came on another PID than
\* the PAT PID, or an SDT section that came on another PID than the SDT
\* PID, leaves the four snapshots and the registry as they were, changes
\* the role of no PID and no entry of the PID table but the arrival PID's,
\* and logs the section as invalid.
C32_StraySectionRejected ==
    [][/\ StrayDispatch(PAT_TABLE_ID, PAT_PID) =>
              /\ TablesKept /\ PidTableKept /\ live' = live
              /\ log' = <<LogLine("pat_section_invalid", 0, 0, in_pid')>>
       /\ StrayDispatch(SDT_TABLE_ID_ACTUAL, SDT_PID) =>
              /\ TablesKept /\ PidTableKept /\ live' = live
              /\ log' = <<LogLine("sdt_section_invalid", 0, 0, in_pid')>>]_vars

\* with a PAT and an SDT installed, a PAT section that came on the PMT PID
\* of service 1 has just been turned away
C32_Reached ==
    /\ running /\ in_pid = PMT_PID_A /\ dispatched = <<PatOnB>>
    /\ psi_table_validate(pat_sections_current)
    /\ psi_table_validate(sdt_sections_current)
    /\ pat_sections_current[0].bytes = PatOnA
    /\ log = <<LogLine("pat_section_invalid", 0, 0, PMT_PID_A)>>

\* C33: every program of the installed PAT with a service id other than 0
\* has its PMT PID marked PSI-bearing.
C33_InstalledPmtPidsArePsi ==
    running =>
        \A i \in 1..Len(CurPrograms) :
            patn_get_program(CurPrograms[i]) # 0 =>
                pid_table[patn_get_pid(CurPrograms[i])].is_psi

\* C34: the PAT PID and the SDT PID are PSI-bearing in every state.
C34_PatAndSdtStayPsi ==
    pid_table[PAT_PID].is_psi /\ pid_table[SDT_PID].is_psi

\* the entries of the registry with service id X
EntriesOf(X) ==
    {service_list[i] : i \in {j \in 1..Len(service_list) :
                                 service_list[j].service_id = X}}

\* every entry of list l1 with a service id other than X is in list l2, as
\* it was
OthersKept(l1, l2, X) ==
    \A i \in 1..Len(l1) :
        l1[i].service_id # X => \E j \in 1..Len(l2) : l2[j] = l1[i]

\* C35: for every service id X, 0 included, the four lookups for X give
\* the fields of an entry whose service id is X, or the not-found values
\* if there is none, and each of the five updates for X leaves every entry
\* with another service id as it was.
C35_RegistryIsolatedById ==
    \A X \in RegIds :
        /\ IF EntriesOf(X) = {}
           THEN /\ service_get_pmt_pid(service_list, X) = 0
                /\ service_get_name(service_list, X) = NullName
                /\ ~service_scrambled(service_list, X)
                /\ service_get_pmt_version(service_list, X) = PMT_VERSION_UNKNOWN
           ELSE \E en \in EntriesOf(X) :
                /\ service_get_pmt_pid(service_list, X) = en.pmt_pid
                /\ service_get_name(service_list, X) =
                       (IF en.name = NullName THEN <<>> ELSE en.name)
                /\ service_scrambled(service_list, X) = en.scrambled
                /\ service_get_pmt_version(service_list, X) = en.pmt_version
        /\ \A p \in RegPids, s \in BOOLEAN :
              /\ OthersKept(service_list,
                            service_update(service_list, X, NameTe, p, s), X)
              /\ OthersKept(service_list,
                            service_set_pmt_pid(service_list, X, p), X)
              /\ OthersKept(service_list,
                            service_set_name(service_list, X, NameTe), X)
              /\ OthersKept(service_list,
                            service_set_scrambled(service_list, X, s), X)
              /\ OthersKept(service_list,
                            service_set_pmt_version(service_list, X, 0), X)

\* C40: no two entries of the service list have the same service id.
C40_OneEntryPerServiceId ==
    \A i, j \in 1..Len(service_list) :
        service_list[i].service_id = service_list[j].service_id => i = j

\* the list holds the three service ids, and calls that found their entry
\* have set the PMT PID, the name, the flag and the version of service 2
C40_Reached ==
    /\ {service_list[i].service_id : i \in 1..Len(service_list)} = RegIds
    /\ \E en \in EntriesOf(2) :
          /\ en.pmt_pid = PMT_PID_B /\ en.name = NameTe
          /\ en.scrambled /\ en.pmt_version = 0

\* C37: a step that hands handle_pmt a PMT whose service the registry does
\* not have on the PID the section came on records no version and leaves
\* the data-bearing flag of every PID as it was.
C37_PmtOnlyOnItsOwnPid ==
    [][\A s \in Pmts :
          (/\ Dispatches(PMT_PID_A, s)
           /\ service_get_pmt_pid(service_list, pmt_get_program(s)) #
                  PMT_PID_A) =>
              /\ service_list' = service_list
              /\ \A p \in Pids : pid_table'[p].is_data = pid_table[p].is_data]_vars

\* the packet counts of the PIDs of S added up
RECURSIVE PacketsOn(_)
PacketsOn(S) ==
    IF S = {} THEN 0
    ELSE LET p == CHOOSE x \in S : TRUE
         IN  pid_table[p].packets + PacketsOn(S \ {p})

\* 1 if this step took a null packet, a unit with a valid sync byte on the
\* null PID, else 0
NullTaken ==
    IF UnitStep /\ unit'.sync /\ unit'.pid = NULL_PID THEN 1 ELSE 0

C39_WindowInsideUnit ==
    /\ payload_off <= TS_SIZE
    /\ payload_off + payload_length <= TS_SIZE

====
